---- MODULE Spec2Model ----
(***************************************************************************)
(* State-machine model of the DVSA booking bot:                            *)
(*   src/src/captcha_handler.py  CaptchaHandler (detection and solvers)    *)
(*   src/src/bot.py              DVSABot (navigation operations)           *)
(*   src/run.py                  main (the navigation sequence)            *)
(*                                                                         *)
(* The browser is the environment.  Every answer the driver gives to the   *)
(* program (an element found or not, a marker present or not, an           *)
(* operation raising) is an input: the functions of CaptchaHandler are     *)
(* operators over the page at the time of the call (p) and a record e of   *)
(* the driver's answers in program order.  An operator returns a record    *)
(* with the returned value, the events of the call in order, the page as   *)
(* last seen.                                                              *)
(*                                                                         *)
(* Time is counted in seconds and only the sleeps the code asks for are    *)
(* counted, so an elapsed time of the model is a lower bound of the        *)
(* elapsed wall-clock time of the program.                                 *)
(***************************************************************************)
EXTENDS Integers, Sequences, FiniteSets, TLC

VARIABLES
    page,          \* markers of the document the browser shows
    focus,         \* frame the driver's focus is on: "top", "anchor", "bframe"
    call,          \* last call of a CaptchaHandler operation and its result
    pc,            \* where the run of main is
    site,          \* where the browser is, and the cookie banner
    current_page,  \* DVSABot.current_page
    allow_manual,  \* config captcha.allow_manual_solve
    nav,           \* the Navigator operation running or just returned
    wq,            \* the wait_for_queue call: budget, clock and counters
    args,          \* --mode, and the credentials of the config file
    browser,       \* "open", or "quit" after DVSABot.cleanup
    hist           \* what the run has done so far

hvars == <<page, focus, call>>

mvars == <<pc, site, current_page, allow_manual, nav, wq, args, browser, hist>>

vars ==
    <<page, focus, call, pc, site, current_page, allow_manual, nav, wq, args,
      browser, hist>>

(***************************************************************************)
(* Bounds of the model.                                                    *)
(***************************************************************************)
\* interactive elements the Incapsula solver finds on a page, at most
MaxElems == 2

\* the budget wait_for_queue is called with, in minutes, at most (main passes
\* the default of 30)
MaxWaitMinutes == 1

\* characters of the licence number and of the booking reference, at most
MaxChars == 2

(***************************************************************************)
(* Program constants.                                                      *)
(***************************************************************************)
ImpervaClickSettle == 2
ImpervaBusterSettle == 3
ImpervaBusterWait == 5
ImpervaManualTimeout == 60
ImpervaNoCheckboxTimeout == 60
RecaptchaNoIframeTimeout == 60
RecaptchaClickSettle == 3
RecaptchaBusterSettle == 5
RecaptchaChallengeTimeout == 90
RecaptchaErrorTimeout == 60
IncapsulaRefreshSettle == 5
IncapsulaClickSettle == 3
IncapsulaManualTimeout == 60
ForbiddenRefreshSettle == 5
ForbiddenManualTimeout == 60
SleepVariance == 1
PostSolveSleep == 1
ManualSolveTimeout == 60
LoadSleep == 3
ForbiddenSleep == 2
CookieSleep == 1
QueueDoneSleep == 2
PollSleep == 10
PollVariance == 5
SelectSleep == 1
SubmitSleep == 2
SecondsPerMinute == 60

(***************************************************************************)
(* Events and results.                                                     *)
(***************************************************************************)
\* one step of a call: the operation, the driver's answer, the seconds slept
Ev(op, res, dur) == [op |-> op, res |-> res, dur |-> dur]

\* the answer of a presence check
Chk(op, present) == Ev(op, IF present THEN "present" ELSE "absent", 0)

\* time.sleep(n)
Sleep(n) == Ev("time.sleep", "", n)

\* the first statement of a solver or handler: its log line
Enter(name) == Ev("enter", name, 0)

\* _wait_for_manual_solve(timeout): a message, then time.sleep(timeout)
_wait_for_manual_solve(timeout) == Ev("_wait_for_manual_solve", "", timeout)

\* the result of a call: the value returned ("raise": an exception leaves the
\* call), the events of the call in order, the page as the call leaves it
R(ret, trace, p) == [ret |-> ret, trace |-> trace, page |-> p]

\* the steps t, then the call s
After(t, s) == [s EXCEPT !.trace = t \o s.trace]

\* the frame the driver's focus is on after one event
FocusStep(f, ev) ==
    IF ev.op = "switch_to.frame" /\ ev.res # "raise" THEN ev.res
    ELSE IF ev.op = "switch_to.default_content" THEN "top"
    ELSE f

RECURSIVE FocusAfter(_, _)
FocusAfter(f, t) ==
    IF t = <<>> THEN f ELSE FocusAfter(FocusStep(f, Head(t)), Tail(t))

RECURSIVE Elapsed(_)
Elapsed(t) == IF t = <<>> THEN 0 ELSE Head(t).dur + Elapsed(Tail(t))

Count(t, op) == Cardinality({i \in DOMAIN t : t[i].op = op})

CountRes(t, op, res) ==
    Cardinality({i \in DOMAIN t : t[i].op = op /\ t[i].res = res})

Has(t, op) == \E i \in DOMAIN t : t[i].op = op

(***************************************************************************)
(* The page.                                                               *)
(***************************************************************************)
Pages ==
    [ title403      : BOOLEAN,   \* "403" in driver.title
      textForbidden : BOOLEAN,   \* "Forbidden" in driver.page_source
      imperva       : BOOLEAN,   \* an element of the Imperva selector list exists
      recaptcha     : BOOLEAN,   \* a reCAPTCHA selector or iframe src matches
      incapId       : BOOLEAN,   \* "Incapsula incident ID" in driver.page_source
      incapOther    : BOOLEAN ]  \* "/_Incapsula_" text, incap_ses_ or visid_incap_ cookie

CleanPage ==
    [ title403 |-> FALSE, textForbidden |-> FALSE, imperva |-> FALSE,
      recaptcha |-> FALSE, incapId |-> FALSE, incapOther |-> FALSE ]

\* "403" in self.driver.title or "Forbidden" in self.driver.page_source
ForbiddenSignal(p) == p.title403 \/ p.textForbidden

_is_imperva_captcha_present(p) == p.imperva

_is_google_recaptcha_present(p) == p.recaptcha

_is_incapsula_present(p) == p.incapId \/ p.incapOther

\* the page with the Imperva marker as the driver's next look finds it
SeeImperva(p, present) == [p EXCEPT !.imperva = present]

SeeRecaptcha(p, present) == [p EXCEPT !.recaptcha = present]

SeeIncidentId(p, present) == [p EXCEPT !.incapId = present]

\* the page with the Forbidden signal as the driver's next look finds it
SeeForbidden(p, present) ==
    IF present
    THEN IF ForbiddenSignal(p) THEN p ELSE [p EXCEPT !.title403 = TRUE]
    ELSE [p EXCEPT !.title403 = FALSE, !.textForbidden = FALSE]

(***************************************************************************)
(* detect_captcha                                                          *)
(***************************************************************************)
\* the dict built with reCAPTCHA before Imperva
captcha_types_Reordered(p) ==
    << <<"recaptcha", _is_google_recaptcha_present(p)>>,
       <<"imperva",   _is_imperva_captcha_present(p)>>,
       <<"incapsula", _is_incapsula_present(p)>> >>

\* the dict captcha_types, in insertion order; its three values are computed
\* when the dict is built
captcha_types(p) ==
    << <<"imperva",   _is_imperva_captcha_present(p)>>,
       <<"recaptcha", _is_google_recaptcha_present(p)>>,
       <<"incapsula", _is_incapsula_present(p)>> >>

\* the loop variable returned after the loop instead of None
FirstPresent_LoopVariable(types) ==
    IF \E i \in DOMAIN types : types[i][2]
    THEN types[CHOOSE i \in DOMAIN types :
                   types[i][2] /\ \A j \in 1..(i - 1) : ~types[j][2]][1]
    ELSE types[Len(types)][1]

\* for captcha_type, present in captcha_types.items(): if present: return
FirstPresent(types) ==
    IF \E i \in DOMAIN types : types[i][2]
    THEN types[CHOOSE i \in DOMAIN types :
                   types[i][2] /\ \A j \in 1..(i - 1) : ~types[j][2]][1]
    ELSE "None"

\* detection reloads a page that shows the Forbidden signal
detect_captcha_Refreshes(p, fault) ==
    IF fault THEN R("raise", <<Ev("read_forbidden", "raise", 0)>>, p)
    ELSE IF ForbiddenSignal(p)
    THEN R("forbidden", <<Chk("read_forbidden", TRUE), Ev("refresh", "ok", 0)>>,
           CleanPage)
    ELSE R(FirstPresent(captcha_types(p)),
           << Chk("read_forbidden", FALSE),
              Chk("check_imperva", captcha_types(p)[1][2]),
              Chk("check_recaptcha", captcha_types(p)[2][2]),
              Chk("check_incapsula", captcha_types(p)[3][2]) >>,
           p)

\* fault: reading driver.title raises (the driver is gone)
detect_captcha(p, fault) ==
    IF fault THEN R("raise", <<Ev("read_forbidden", "raise", 0)>>, p)
    ELSE IF ForbiddenSignal(p)
    THEN R("forbidden", <<Chk("read_forbidden", TRUE)>>, p)
    ELSE R(FirstPresent(captcha_types(p)),
           << Chk("read_forbidden", FALSE),
              Chk("check_imperva", captcha_types(p)[1][2]),
              Chk("check_recaptcha", captcha_types(p)[2][2]),
              Chk("check_incapsula", captcha_types(p)[3][2]) >>,
           p)

(***************************************************************************)
(* _solve_imperva_captcha                                                  *)
(*   a.stage   "no_checkbox": no selector of checkbox_selectors gives a    *)
(*             clickable element; "click_raise": execute_script raises;    *)
(*             "clicked": the script click is dispatched                   *)
(*   a.m1      Imperva marker present at the re-check after the click      *)
(*   a.buster  "none": no solver button; "clicked": a button is clicked;   *)
(*             "fail": every button's click raises; "raise": find_elements *)
(*             raises                                                      *)
(*   a.m2      marker present at the re-check after the Buster step        *)
(*   a.m3      marker present at the re-check after the manual wait        *)
(* Answers the call never reads are fixed (TRUE, "none").                  *)
(***************************************************************************)
ImpervaAnswers ==
    { a \in [ stage : {"no_checkbox", "click_raise", "clicked"}, m1 : BOOLEAN,
              buster : {"none", "clicked", "fail", "raise"},
              m2 : BOOLEAN, m3 : BOOLEAN ] :
        /\ a.stage = "click_raise" => a.m3
        /\ a.stage # "clicked" => a.m1 /\ a.buster = "none" /\ a.m2
        /\ ~a.m1 => a.buster = "none" /\ a.m2 /\ a.m3
        /\ ~a.m2 => a.m3 }

\* lines 217-232: the Buster extension, best effort
ImpervaBuster(a) ==
    <<Ev("buster", a.buster, 0)>>
    \o (IF a.buster = "clicked" THEN <<Sleep(ImpervaBusterSettle)>> ELSE <<>>)

\* lines 242-250: the manual wait and the last re-check, after the Buster step
ImpervaManual(p, a) ==
    R(IF ~_is_imperva_captcha_present(SeeImperva(p, a.m3)) THEN "True" ELSE "False",
      << _wait_for_manual_solve(ImpervaManualTimeout),
         Chk("check_imperva", a.m3) >>,
      SeeImperva(p, a.m3))

\* lines 252-265: no checkbox found
ImpervaNoCheckbox(p, a) ==
    R(IF ~_is_imperva_captcha_present(SeeImperva(p, a.m3)) THEN "True" ELSE "False",
      << Ev("_analyze_captcha_page", "", 0),
         _wait_for_manual_solve(ImpervaNoCheckboxTimeout),
         Chk("check_imperva", a.m3) >>,
      SeeImperva(p, a.m3))

\* a missing solver button ends the solver with False
ImpervaAfterBuster_MissingButtonFails(p, a) ==
    LET p2 == SeeImperva(p, a.m2)
        t2 == <<Sleep(ImpervaBusterWait), Chk("check_imperva", a.m2)>>
    IN  IF a.buster = "none" THEN R("False", <<>>, p)
        ELSE IF ~_is_imperva_captcha_present(p2) THEN R("True", t2, p2)
        ELSE After(t2, ImpervaManual(p2, a))

\* lines 234-250: after the Buster step
ImpervaAfterBuster(p, a) ==
    LET p2 == SeeImperva(p, a.m2)
        t2 == <<Sleep(ImpervaBusterWait), Chk("check_imperva", a.m2)>>
    IN  IF ~_is_imperva_captcha_present(p2) THEN R("True", t2, p2)
        ELSE After(t2, ImpervaManual(p2, a))

\* the solver goes on to the Buster step whatever the first re-check finds
ImpervaClick_NoEarlyReturn(p, a) ==
    IF a.stage = "click_raise"
    THEN R("False", <<Ev("js_click", "raise", 0)>>, p)
    ELSE LET p1 == SeeImperva(p, a.m1)
             t1 == << Ev("js_click", "ok", 0), Sleep(ImpervaClickSettle),
                      Chk("check_imperva", a.m1) >>
         IN  After(t1 \o ImpervaBuster(a), ImpervaAfterBuster(p1, a))

\* lines 202-250: the checkbox was found
ImpervaClick(p, a) ==
    IF a.stage = "click_raise"
    THEN R("False", <<Ev("js_click", "raise", 0)>>, p)
    ELSE LET p1 == SeeImperva(p, a.m1)
             t1 == << Ev("js_click", "ok", 0), Sleep(ImpervaClickSettle),
                      Chk("check_imperva", a.m1) >>
         IN  IF ~_is_imperva_captcha_present(p1) THEN R("True", t1, p1)
             ELSE After(t1 \o ImpervaBuster(a), ImpervaAfterBuster(p1, a))

_solve_imperva_captcha(p, a) ==
    IF a.stage = "no_checkbox"
    THEN After(<<Enter("_solve_imperva_captcha"), Ev("find_checkbox", "none", 0)>>,
               ImpervaNoCheckbox(p, a))
    ELSE After(<<Enter("_solve_imperva_captcha"), Ev("find_checkbox", "found", 0)>>,
               ImpervaClick(p, a))

(***************************************************************************)
(* _solve_google_recaptcha                                                 *)
(*   a.stage      "find_raise": find_elements/get_attribute raises;        *)
(*                "no_iframe": no iframe with recaptcha/api2/anchor;       *)
(*                "switch_raise": switch_to.frame raises;                  *)
(*                "not_clickable": the wait for the checkbox times out;    *)
(*                "click_raise": checkbox.click() raises;                  *)
(*                "clicked": the checkbox is clicked                       *)
(*   a.m1         reCAPTCHA marker present at the re-check after the click *)
(*   a.challenge  "none": no bframe iframe; "find_raise": looking for it   *)
(*                raises; "switch_raise": switching into it raises;        *)
(*                "buster_none", "buster_clicked", "buster_fail",          *)
(*                "buster_raise": the Buster step inside the bframe        *)
(*   a.mw         marker present at the re-check after the manual wait     *)
(* switch_to.default_content() itself is taken not to fail.                *)
(***************************************************************************)
RecaptchaAnswers ==
    { a \in [ stage : {"find_raise", "no_iframe", "switch_raise", "not_clickable",
                       "click_raise", "clicked"},
              m1 : BOOLEAN,
              challenge : {"none", "find_raise", "switch_raise", "buster_none",
                           "buster_clicked", "buster_fail", "buster_raise"},
              mw : BOOLEAN ] :
        /\ a.stage \in {"find_raise", "switch_raise"} => a.mw
        /\ a.stage # "clicked" => a.m1 /\ a.challenge = "none"
        /\ ~a.m1 => a.challenge = "none" /\ a.mw }

DefaultContent == Ev("switch_to.default_content", "ok", 0)

\* the wait for manual intervention and the re-check that decides the result
RecaptchaManual(p, a, timeout) ==
    R(IF ~_is_google_recaptcha_present(SeeRecaptcha(p, a.mw)) THEN "True" ELSE "False",
      <<_wait_for_manual_solve(timeout), Chk("check_recaptcha", a.mw)>>,
      SeeRecaptcha(p, a.mw))

\* lines 292-311: no anchor iframe
RecaptchaNoIframe(p, a) == RecaptchaManual(p, a, RecaptchaNoIframeTimeout)

\* lines 397-408: the outer handler
RecaptchaOuterError(p) == R("False", <<DefaultContent>>, p)

\* the handler without its switch_to.default_content()
RecaptchaClickError_NoRestore(p, a) ==
    RecaptchaManual(p, a, RecaptchaErrorTimeout)

\* lines 382-395: the handler of the checkbox block
RecaptchaClickError(p, a) ==
    After(<<DefaultContent>>, RecaptchaManual(p, a, RecaptchaErrorTimeout))

\* lines 353-364: the Buster button inside the challenge iframe
RecaptchaBuster(a) ==
    IF a.challenge = "buster_raise" THEN <<Ev("buster", "raise", 0)>>
    ELSE IF a.challenge = "buster_clicked"
    THEN <<Ev("buster", "clicked", 0), Sleep(RecaptchaBusterSettle)>>
    ELSE IF a.challenge = "buster_fail" THEN <<Ev("buster", "fail", 0)>>
    ELSE <<Ev("buster", "none", 0)>>

\* lines 344-371: the challenge iframe; both the try block and its handler end
\* with switch_to.default_content()
RecaptchaChallenge(a) ==
    IF a.challenge = "switch_raise"
    THEN <<Ev("switch_to.frame", "raise", 0), DefaultContent>>
    ELSE <<Ev("switch_to.frame", "bframe", 0)>> \o RecaptchaBuster(a)
         \o <<DefaultContent>>

\* lines 340-380: the marker is still present after the click
RecaptchaAfterClick(p, a) ==
    IF a.challenge = "find_raise"
    THEN After(<<Ev("find_challenge", "raise", 0)>>, RecaptchaClickError(p, a))
    ELSE IF a.challenge = "none"
    THEN After(<<Ev("find_challenge", "none", 0)>>,
               RecaptchaManual(p, a, RecaptchaChallengeTimeout))
    ELSE After(<<Ev("find_challenge", "found", 0)>> \o RecaptchaChallenge(a),
               RecaptchaManual(p, a, RecaptchaChallengeTimeout))

\* lines 318-395: inside the anchor iframe
RecaptchaCheckbox(p, a) ==
    IF a.stage = "not_clickable"
    THEN After(<<Ev("wait_checkbox", "timeout", 0)>>, RecaptchaClickError(p, a))
    ELSE IF a.stage = "click_raise"
    THEN After(<<Ev("wait_checkbox", "found", 0), Ev("click", "raise", 0)>>,
               RecaptchaClickError(p, a))
    ELSE LET p1 == SeeRecaptcha(p, a.m1)
             t1 == << Ev("wait_checkbox", "found", 0), Ev("click", "ok", 0),
                      DefaultContent, Sleep(RecaptchaClickSettle),
                      Chk("check_recaptcha", a.m1) >>
         IN  IF ~_is_google_recaptcha_present(p1) THEN R("True", t1, p1)
             ELSE After(t1, RecaptchaAfterClick(p1, a))

\* lines 282-315: look for the anchor iframe and switch into it
RecaptchaFindIframe(p, a) ==
    IF a.stage = "find_raise"
    THEN After(<<Ev("find_iframes", "raise", 0)>>, RecaptchaOuterError(p))
    ELSE IF a.stage = "no_iframe"
    THEN After(<<Ev("find_iframes", "none", 0)>>, RecaptchaNoIframe(p, a))
    ELSE IF a.stage = "switch_raise"
    THEN After(<<Ev("find_iframes", "anchor", 0), Ev("switch_to.frame", "raise", 0)>>,
               RecaptchaOuterError(p))
    ELSE After(<<Ev("find_iframes", "anchor", 0), Ev("switch_to.frame", "anchor", 0)>>,
               RecaptchaCheckbox(p, a))

_solve_google_recaptcha(p, a) ==
    After(<<Enter("_solve_google_recaptcha")>>, RecaptchaFindIframe(p, a))

(***************************************************************************)
(* _solve_incapsula_captcha                                                *)
(*   a.refresh  "ok", or "raise": driver.refresh() raises                  *)
(*   a.id1      "Incapsula incident ID" in page_source after the refresh   *)
(*   a.elems    the interactive elements found, in the order of the loops, *)
(*              each with what happens to it: "hidden": not displayed;     *)
(*              "click_raise": click() raises; "still": clicked, the       *)
(*              marker is still there; "cleared": clicked, the marker is   *)
(*              gone; "stale": is_displayed() raises                       *)
(*   a.id3      the marker after the manual wait                           *)
(***************************************************************************)
ElemOutcomes == {"hidden", "click_raise", "still", "cleared", "stale"}

ElemSeqs == UNION { [1..n -> ElemOutcomes] : n \in 0..MaxElems }

IncapsulaAnswers ==
    { a \in [ refresh : {"ok", "raise"}, id1 : BOOLEAN, elems : ElemSeqs,
              id3 : BOOLEAN ] :
        /\ a.refresh = "raise" => a.id1
        /\ ~a.id1 => a.elems = <<>> /\ a.id3
        /\ (\E i \in DOMAIN a.elems : a.elems[i] = "cleared") => a.id3 }

\* an element that is not displayed is clicked as well
IncapsulaElement_ClicksHidden(outcome) ==
    IF outcome = "hidden"
    THEN << Ev("is_displayed", "hidden", 0), Ev("click", "ok", 0),
            Sleep(IncapsulaClickSettle), Chk("read_incident_id", TRUE) >>
    ELSE IF outcome = "stale" THEN <<Ev("is_displayed", "raise", 0)>>
    ELSE IF outcome = "click_raise"
    THEN <<Ev("is_displayed", "displayed", 0), Ev("click", "raise", 0)>>
    ELSE << Ev("is_displayed", "displayed", 0), Ev("click", "ok", 0),
            Sleep(IncapsulaClickSettle),
            Chk("read_incident_id", outcome = "still") >>

\* lines 439-450: one element of the loops
IncapsulaElement(outcome) ==
    IF outcome = "hidden" THEN <<Ev("is_displayed", "hidden", 0)>>
    ELSE IF outcome = "stale" THEN <<Ev("is_displayed", "raise", 0)>>
    ELSE IF outcome = "click_raise"
    THEN <<Ev("is_displayed", "displayed", 0), Ev("click", "raise", 0)>>
    ELSE << Ev("is_displayed", "displayed", 0), Ev("click", "ok", 0),
            Sleep(IncapsulaClickSettle),
            Chk("read_incident_id", outcome = "still") >>

\* lines 426-452: the loops over the interactive elements; "cleared" returns
\* True from inside the loop, an exception outside the innermost try ends them
RECURSIVE IncapsulaClicks(_)
IncapsulaClicks(elems) ==
    IF elems = <<>> THEN [cleared |-> FALSE, trace |-> <<>>]
    ELSE IF Head(elems) = "cleared"
    THEN [cleared |-> TRUE, trace |-> IncapsulaElement("cleared")]
    ELSE IF Head(elems) = "stale"
    THEN [cleared |-> FALSE, trace |-> IncapsulaElement("stale")]
    ELSE LET rest == IncapsulaClicks(Tail(elems))
         IN  [rest EXCEPT !.trace = IncapsulaElement(Head(elems)) \o rest.trace]

\* lines 454-463: the manual wait and the last re-check
IncapsulaManual(p, a) ==
    R(IF ~SeeIncidentId(p, a.id3).incapId THEN "True" ELSE "False",
      << _wait_for_manual_solve(IncapsulaManualTimeout),
         Chk("read_incident_id", a.id3) >>,
      SeeIncidentId(p, a.id3))

\* the solver goes on to the elements whatever the re-check after the refresh
\* finds
IncapsulaAfterRefresh_NoEarlyReturn(p, a) ==
    LET p1 == SeeIncidentId(p, a.id1)
        t1 == << Ev("refresh", "ok", 0), Sleep(IncapsulaRefreshSettle),
                 Chk("read_incident_id", a.id1) >>
        clicks == IncapsulaClicks(a.elems)
    IN  IF clicks.cleared
        THEN R("True", t1 \o clicks.trace, SeeIncidentId(p1, FALSE))
        ELSE After(t1 \o clicks.trace, IncapsulaManual(p1, a))

\* lines 421-463: after the refresh
IncapsulaAfterRefresh(p, a) ==
    LET p1 == SeeIncidentId(p, a.id1)
        t1 == << Ev("refresh", "ok", 0), Sleep(IncapsulaRefreshSettle),
                 Chk("read_incident_id", a.id1) >>
        clicks == IncapsulaClicks(a.elems)
    IN  IF ~p1.incapId THEN R("True", t1, p1)
        ELSE IF clicks.cleared
        THEN R("True", t1 \o clicks.trace, SeeIncidentId(p1, FALSE))
        ELSE After(t1 \o clicks.trace, IncapsulaManual(p1, a))

_solve_incapsula_captcha(p, a) ==
    IF a.refresh = "raise"
    THEN R("False", <<Enter("_solve_incapsula_captcha"), Ev("refresh", "raise", 0)>>, p)
    ELSE After(<<Enter("_solve_incapsula_captcha")>>, IncapsulaAfterRefresh(p, a))

(***************************************************************************)
(* handle_403_error and solve_captcha                                      *)
(*   e.det    reading driver.title in detect_captcha raises                *)
(*   e.h403   answers to handle_403_error:                                 *)
(*     imp2     Imperva marker present at the second look (line 161)       *)
(*     refresh  "ok", or "raise": driver.refresh() raises                  *)
(*     f2       Forbidden signal after the refresh: "present", "absent",   *)
(*              or "raise": reading driver.title raises                    *)
(*   e.imp, e.rc, e.inc  answers to the three solvers                      *)
(***************************************************************************)
H403Answers ==
    { h \in [ imp2 : BOOLEAN, refresh : {"ok", "raise"},
              f2 : {"present", "absent", "raise"} ] :
        h.refresh = "raise" => h.f2 = "present" }

DefaultH403 == [imp2 |-> TRUE, refresh |-> "ok", f2 |-> "present"]

DefaultImperva ==
    [stage |-> "no_checkbox", m1 |-> TRUE, buster |-> "none", m2 |-> TRUE, m3 |-> TRUE]

DefaultRecaptcha ==
    [stage |-> "no_iframe", m1 |-> TRUE, challenge |-> "none", mw |-> TRUE]

DefaultIncapsula == [refresh |-> "ok", id1 |-> TRUE, elems |-> <<>>, id3 |-> TRUE]

\* e.post: answers to check_and_handle_captcha after the solver returned
\*   jit    the draw of random.uniform(0, variance): 0 the least, 1 the most
\*   after  the page after the configured manual wait: "same", or "clean":
\*          somebody solved the challenge in the browser window
DefaultPost == [jit |-> 0, after |-> "same"]

DefaultAnswers ==
    [ det |-> FALSE, h403 |-> DefaultH403, imp |-> DefaultImperva,
      rc |-> DefaultRecaptcha, inc |-> DefaultIncapsula, post |-> DefaultPost ]

\* lines 163-174: neither marker found
ForbiddenRefresh(p, h) ==
    IF h.refresh = "raise" THEN R("raise", <<Ev("refresh", "raise", 0)>>, p)
    ELSE IF h.f2 = "raise"
    THEN R("raise", << Ev("refresh", "ok", 0), Sleep(ForbiddenRefreshSettle),
                       Ev("read_forbidden", "raise", 0) >>, p)
    ELSE IF ForbiddenSignal(SeeForbidden(p, h.f2 = "present"))
    THEN R("False",
           << Ev("refresh", "ok", 0), Sleep(ForbiddenRefreshSettle),
              Chk("read_forbidden", TRUE),
              _wait_for_manual_solve(ForbiddenManualTimeout) >>,
           SeeForbidden(p, TRUE))
    ELSE R("True",
           << Ev("refresh", "ok", 0), Sleep(ForbiddenRefreshSettle),
              Chk("read_forbidden", FALSE) >>,
           SeeForbidden(p, FALSE))

\* line 158: _is_imperva_captcha_present() or _is_incapsula_present()
ForbiddenLooks(p) ==
    IF _is_imperva_captcha_present(p) THEN <<Chk("check_imperva", TRUE)>>
    ELSE <<Chk("check_imperva", FALSE), Chk("check_incapsula", _is_incapsula_present(p))>>

\* line 161: "imperva" if self._is_imperva_captcha_present() else "incapsula"
ForbiddenTarget(p, h) ==
    IF _is_imperva_captcha_present(SeeImperva(p, h.imp2)) THEN "imperva" ELSE "incapsula"

RECURSIVE solve_captcha(_, _, _)

\* a challenge found inside the 403 page is handed to handle_403_error once
\* more before it goes to its solver
handle_403_error_Reenters(p, e) ==
    IF _is_imperva_captcha_present(p) \/ _is_incapsula_present(p)
    THEN After(<<Enter("handle_403_error")>> \o ForbiddenLooks(p)
                   \o <<Chk("check_imperva", e.h403.imp2)>>
                   \o <<Enter("handle_403_error")>> \o ForbiddenLooks(p)
                   \o <<Chk("check_imperva", e.h403.imp2)>>,
               solve_captcha(ForbiddenTarget(p, e.h403), SeeImperva(p, e.h403.imp2), e))
    ELSE After(<<Enter("handle_403_error")>> \o ForbiddenLooks(p),
               ForbiddenRefresh(p, e.h403))

handle_403_error(p, e) ==
    IF _is_imperva_captcha_present(p) \/ _is_incapsula_present(p)
    THEN After(<<Enter("handle_403_error")>> \o ForbiddenLooks(p)
                   \o <<Chk("check_imperva", e.h403.imp2)>>,
               solve_captcha(ForbiddenTarget(p, e.h403), SeeImperva(p, e.h403.imp2), e))
    ELSE After(<<Enter("handle_403_error")>> \o ForbiddenLooks(p),
               ForbiddenRefresh(p, e.h403))

\* lines 57-68: the solver of the type
Dispatch(captcha_type, p, e) ==
    IF captcha_type = "imperva" THEN _solve_imperva_captcha(p, e.imp)
    ELSE IF captcha_type = "recaptcha" THEN _solve_google_recaptcha(p, e.rc)
    ELSE IF captcha_type = "incapsula" THEN _solve_incapsula_captcha(p, e.inc)
    ELSE IF captcha_type = "forbidden" THEN handle_403_error(p, e)
    ELSE R("False", <<>>, p)

\* captcha_type "None": the call gives no type
solve_captcha(captcha_type, p, e) ==
    LET det == IF captcha_type = "None" THEN detect_captcha(p, e.det)
               ELSE R(captcha_type, <<>>, p)
    IN  IF det.ret = "raise" THEN det
        ELSE IF det.ret = "None" THEN R("True", det.trace, p)
        ELSE After(det.trace, Dispatch(det.ret, p, e))

(***************************************************************************)
(* The answers the driver can give to one call.                            *)
(***************************************************************************)
\* an anchor iframe is itself a reCAPTCHA marker (iframe[src*='recaptcha'])
RecaptchaAnswersOn(p) ==
    { a \in RecaptchaAnswers :
        _is_google_recaptcha_present(p) \/ a.stage \in {"find_raise", "no_iframe"} }

ForbiddenAnswersOn(p) ==
    IF _is_imperva_captcha_present(p) \/ _is_incapsula_present(p)
    THEN { [DefaultAnswers EXCEPT !.h403 = [DefaultH403 EXCEPT !.imp2 = TRUE], !.imp = a] :
             a \in ImpervaAnswers }
         \cup
         { [DefaultAnswers EXCEPT !.h403 = [DefaultH403 EXCEPT !.imp2 = FALSE], !.inc = a] :
             a \in IncapsulaAnswers }
    ELSE { [DefaultAnswers EXCEPT !.h403 = h] : h \in {x \in H403Answers : x.imp2} }

SolverAnswersOn(captcha_type, p) ==
    IF captcha_type = "imperva"
    THEN { [DefaultAnswers EXCEPT !.imp = a] : a \in ImpervaAnswers }
    ELSE IF captcha_type = "recaptcha"
    THEN { [DefaultAnswers EXCEPT !.rc = a] : a \in RecaptchaAnswersOn(p) }
    ELSE IF captcha_type = "incapsula"
    THEN { [DefaultAnswers EXCEPT !.inc = a] : a \in IncapsulaAnswers }
    ELSE IF captcha_type = "forbidden" THEN ForbiddenAnswersOn(p)
    ELSE {DefaultAnswers}

SolveAnswersOn(captcha_type, p) ==
    IF captcha_type = "None"
    THEN {[DefaultAnswers EXCEPT !.det = TRUE]}
         \cup SolverAnswersOn(detect_captcha(p, FALSE).ret, p)
    ELSE SolverAnswersOn(captcha_type, p)

(***************************************************************************)
(* DVSABot                                                                 *)
(***************************************************************************)
\* _random_sleep(base_time, variance): base_time + random.uniform(0, variance);
\* jit is the draw, 0 the least and 1 the most
_random_sleep(base_time, variance, jit) ==
    Ev("_random_sleep", "", base_time + jit * variance)

\* every marker gone
Solved(p) == CleanPage

\* the configured wait is made whatever allow_manual_solve says
CycleManual_IgnoresSetting(p, e, allow_manual_solve) ==
    LET p2 == IF e.post.after = "clean" THEN Solved(p) ELSE p
        again == detect_captcha(p2, FALSE)
    IN  R(IF again.ret = "None" THEN "True" ELSE "False",
          <<_random_sleep(ManualSolveTimeout, SleepVariance, e.post.jit)>>
              \o again.trace,
          p2)

\* lines 172-186: the solver returned False
CycleManual(p, e, allow_manual_solve) ==
    IF allow_manual_solve
    THEN LET p2 == IF e.post.after = "clean" THEN Solved(p) ELSE p
             again == detect_captcha(p2, FALSE)
         IN  R(IF again.ret = "None" THEN "True" ELSE "False",
               <<_random_sleep(ManualSolveTimeout, SleepVariance, e.post.jit)>>
                   \o again.trace,
               p2)
    ELSE R("False", <<>>, p)

\* the configured wait is made after every solver result
CycleSolve_AlwaysWaits(captcha_type, p, e, allow_manual_solve) ==
    LET s == solve_captcha(captcha_type, p, e)
    IN  IF s.ret = "raise" THEN s
        ELSE After(s.trace \o <<Ev("success", s.ret, 0)>>,
                   CycleManual(s.page, e, allow_manual_solve))

\* lines 166-186: a captcha was detected; the event "success" is the value
\* solve_captcha returned (line 169)
CycleSolve(captcha_type, p, e, allow_manual_solve) ==
    LET s == solve_captcha(captcha_type, p, e)
    IN  IF s.ret = "raise" THEN s
        ELSE IF s.ret = "True"
        THEN R("True",
               s.trace \o << Ev("success", "True", 0),
                             _random_sleep(PostSolveSleep, SleepVariance, e.post.jit) >>,
               s.page)
        ELSE After(s.trace \o <<Ev("success", "False", 0)>>,
                   CycleManual(s.page, e, allow_manual_solve))

check_and_handle_captcha(p, e, allow_manual_solve) ==
    LET det == detect_captcha(p, e.det)
    IN  IF det.ret = "raise" THEN det
        ELSE IF det.ret = "None" THEN R("True", det.trace, p)
        ELSE After(det.trace, CycleSolve(det.ret, p, e, allow_manual_solve))

\* the answers the driver can give to one check_and_handle_captcha
PostAnswers(solved, allow_manual_solve) ==
    IF solved = "True" THEN {[DefaultPost EXCEPT !.jit = j] : j \in {0, 1}}
    ELSE IF solved = "False" /\ allow_manual_solve
    THEN [jit : {0, 1}, after : {"same", "clean"}]
    ELSE {DefaultPost}

CycleAnswersOn(p, allow_manual_solve) ==
    {[DefaultAnswers EXCEPT !.det = TRUE]}
    \cup
    UNION { { [e EXCEPT !.post = q] :
                q \in PostAnswers(solve_captcha(detect_captcha(p, FALSE).ret, p, e).ret,
                                  allow_manual_solve) } :
            e \in SolverAnswersOn(detect_captcha(p, FALSE).ret, p) }

(***************************************************************************)
(* The run of main (src/run.py) over DVSABot.                              *)
(*   site.loc     "blank", "queue" (the queue domain), "application" (the  *)
(*                first page of the booking flow, with the test types),    *)
(*                "licence" (the licence details page), "account"          *)
(*   site.banner  the cookie banner of the application page: "none",       *)
(*                "shown", "dismissed"                                     *)
(*   nav          the Navigator operation: its name, its events, the value *)
(*                it returned ("": it is running; "raise": an exception    *)
(*                left it) and the location at its return                  *)
(*   wq           wait_for_queue: budget (seconds), elapsed (seconds since *)
(*                queue_start_time), polls (iterations completed), start   *)
(*                (elapsed when the last iteration began), cycle (seconds  *)
(*                of the last detect+solve cycle)                          *)
(*   hist         ops: the operations main called, with their results;     *)
(*                markers: some page of the run showed a challenge marker; *)
(*                queued: the load ended on the queue page                 *)
(***************************************************************************)
\* the documents the site serves during a run
NavPages ==
    { CleanPage,
      [CleanPage EXCEPT !.title403 = TRUE],
      [CleanPage EXCEPT !.imperva = TRUE],
      [CleanPage EXCEPT !.recaptcha = TRUE],
      [CleanPage EXCEPT !.incapId = TRUE, !.incapOther = TRUE] }

\* the documents the queue host serves: the holding page, or a 403 page
QueuePages == { CleanPage, [CleanPage EXCEPT !.title403 = TRUE] }

ShowsMarker(p) ==
    ForbiddenSignal(p) \/ _is_imperva_captcha_present(p)
    \/ _is_google_recaptcha_present(p) \/ _is_incapsula_present(p)

NoNav == [op |-> "none", trace |-> <<>>, ret |-> "", at |-> ""]

NoWait == [budget |-> 0, elapsed |-> 0, polls |-> 0, start |-> 0, cycle |-> 0]

\* mode "": not read yet; creds: whether dvsa.license_number and
\* dvsa.booking_reference are both non-empty; lic, ref: their lengths, known
\* to the model once they are typed
NoArgs == [mode |-> "", creds |-> FALSE, lic |-> 0, ref |-> 0]

\* DVSABot.__init__ and the start of main
MainInit ==
    /\ page = CleanPage
    /\ focus = "top"
    /\ call = [op |-> "none", arg |-> "", ret |-> "", trace |-> <<>>,
               before |-> CleanPage]
    /\ pc = "start"
    /\ site = [loc |-> "blank", banner |-> "none"]
    /\ current_page = "None"
    /\ allow_manual \in BOOLEAN
    /\ nav = NoNav
    /\ wq = NoWait
    /\ args = NoArgs
    /\ browser = "open"
    /\ hist = [ops |-> <<>>, markers |-> FALSE, queued |-> FALSE, answer |-> ""]

\* an exception that leaves an operation ends main without the prompt
Step_RaiseEndsMain(op, first, evs, ret, next) ==
    /\ nav' = [ op |-> op,
                trace |-> (IF first THEN <<>> ELSE nav.trace) \o evs,
                ret |-> ret,
                at |-> IF ret = "" THEN "" ELSE site'.loc ]
    /\ pc' = IF ret \in {"", "True"} THEN next
             ELSE IF ret = "raise" THEN "exit" ELSE "finally"
    /\ hist' = [ hist EXCEPT
                   !.ops = IF ret = "" THEN @ ELSE Append(@, <<op, ret>>),
                   !.markers = @ \/ ShowsMarker(page'),
                   !.queued = @ \/ (op = "navigate_to_first_page" /\ first
                                    /\ site'.loc = "queue") ]

\* one step of operation op: its events evs are added (first: op starts),
\* ret is "" while op goes on at pc next; main goes to its finally block when
\* op returns False or an exception leaves it
Step(op, first, evs, ret, next) ==
    /\ nav' = [ op |-> op,
                trace |-> (IF first THEN <<>> ELSE nav.trace) \o evs,
                ret |-> ret,
                at |-> IF ret = "" THEN "" ELSE site'.loc ]
    /\ pc' = IF ret \in {"", "True"} THEN next ELSE "finally"
    /\ hist' = [ hist EXCEPT
                   !.ops = IF ret = "" THEN @ ELSE Append(@, <<op, ret>>),
                   !.markers = @ \/ ShowsMarker(page'),
                   !.queued = @ \/ (op = "navigate_to_first_page" /\ first
                                    /\ site'.loc = "queue") ]

\* the event of a whole detect+solve cycle
CycleEv(r) == Ev("check_and_handle_captcha", r.ret, 0)

(***************************************************************************)
(* navigate_to_first_page                                                  *)
(***************************************************************************)
\* lines 195-210: driver.get of the queue URL or of the direct URL
NavGet ==
    /\ pc = "start"
    /\ \E use_queue \in BOOLEAN :
         \/ /\ UNCHANGED <<page, focus, site, current_page>>
            /\ Step("navigate_to_first_page", TRUE,
                    <<Ev("driver.get", "raise", 0)>>, "False", "finally")
         \/ \E loc \in (IF use_queue THEN {"queue", "application"} ELSE {"application"}),
               b \in {"none", "shown"}, p \in NavPages :
              /\ loc = "queue" => p \in QueuePages
              /\ page' = p
              /\ focus' = "top"
              /\ site' = [loc |-> loc, banner |-> IF loc = "application" THEN b ELSE "none"]
              /\ current_page' = "application"
              /\ Step("navigate_to_first_page", TRUE,
                      <<Ev("driver.get", IF use_queue THEN "queue_url" ELSE "direct_url", 0)>>,
                      "", "nav_captcha")
    /\ UNCHANGED <<call, allow_manual, wq, args, browser>>

\* lines 212-221: the settle sleep and the detect+solve cycle
NavCaptcha ==
    /\ pc = "nav_captcha"
    /\ \E e \in CycleAnswersOn(page, allow_manual), jit \in {0, 1} :
         LET r == check_and_handle_captcha(page, e, allow_manual)
         IN  /\ page' = r.page
             /\ focus' = FocusAfter(focus, r.trace)
             /\ UNCHANGED site
             /\ Step("navigate_to_first_page", FALSE,
                     <<_random_sleep(LoadSleep, SleepVariance, jit), CycleEv(r)>>,
                     IF r.ret = "True" THEN "" ELSE r.ret, "nav_403")
    /\ UNCHANGED <<call, current_page, allow_manual, wq, args, browser>>

\* the operation goes on to the cookie prompt after handle_403_error without
\* looking at the Forbidden signal again
NavForbidden_NoRecheck ==
    /\ pc = "nav_403"
    /\ \/ /\ ~ForbiddenSignal(page)
          /\ UNCHANGED <<page, focus, site>>
          /\ Step("navigate_to_first_page", FALSE,
                  <<Chk("read_forbidden", FALSE)>>, "", "nav_cookies")
       \/ /\ ForbiddenSignal(page)
          /\ \E e \in ForbiddenAnswersOn(page), jit \in {0, 1} :
               LET r == handle_403_error(page, e)
                   evs == << Chk("read_forbidden", TRUE),
                             Ev("handle_403_error", r.ret, 0) >>
               IN  /\ page' = r.page
                   /\ focus' = FocusAfter(focus, r.trace)
                   /\ UNCHANGED site
                   /\ IF r.ret = "raise"
                      THEN Step("navigate_to_first_page", FALSE, evs, "raise", "finally")
                      ELSE Step("navigate_to_first_page", FALSE,
                                evs \o <<_random_sleep(ForbiddenSleep, SleepVariance, jit)>>,
                                "", "nav_cookies")
    /\ UNCHANGED <<call, current_page, allow_manual, wq, args, browser>>

\* lines 223-233: the Forbidden re-check
NavForbidden ==
    /\ pc = "nav_403"
    /\ \/ /\ ~ForbiddenSignal(page)
          /\ UNCHANGED <<page, focus, site>>
          /\ Step("navigate_to_first_page", FALSE,
                  <<Chk("read_forbidden", FALSE)>>, "", "nav_cookies")
       \/ /\ ForbiddenSignal(page)
          /\ \E e \in ForbiddenAnswersOn(page), jit \in {0, 1} :
               LET r == handle_403_error(page, e)
                   evs == << Chk("read_forbidden", TRUE),
                             Ev("handle_403_error", r.ret, 0) >>
               IN  /\ page' = r.page
                   /\ focus' = FocusAfter(focus, r.trace)
                   /\ UNCHANGED site
                   /\ IF r.ret = "raise"
                      THEN Step("navigate_to_first_page", FALSE, evs, "raise", "finally")
                      ELSE Step("navigate_to_first_page", FALSE,
                                evs \o << _random_sleep(ForbiddenSleep, SleepVariance, jit),
                                          Chk("read_forbidden", ForbiddenSignal(r.page)) >>,
                                IF ForbiddenSignal(r.page) THEN "False" ELSE "",
                                "nav_cookies")
    /\ UNCHANGED <<call, current_page, allow_manual, wq, args, browser>>

\* a cookie button that does not show up makes the operation fail
NavCookies_AbsentFails ==
    /\ pc = "nav_cookies"
    /\ \E outcome \in {"clicked", "timeout", "click_raise"}, jit \in {0, 1} :
         /\ outcome \in {"clicked", "click_raise"}
            => site.loc = "application" /\ site.banner = "shown"
         /\ site' = IF outcome = "clicked" THEN [site EXCEPT !.banner = "dismissed"]
                    ELSE site
         /\ UNCHANGED <<page, focus>>
         /\ IF outcome = "clicked"
            THEN Step("navigate_to_first_page", FALSE,
                      << Ev("cookie_button", "clicked", 0),
                         _random_sleep(CookieSleep, SleepVariance, jit) >>,
                      "True", "wq_entry")
            ELSE IF outcome = "timeout"
            THEN Step("navigate_to_first_page", FALSE,
                      <<Ev("cookie_button", "timeout", 0)>>, "False", "finally")
            ELSE Step("navigate_to_first_page", FALSE,
                      <<Ev("cookie_button", "click_raise", 0)>>, "raise", "finally")
    /\ UNCHANGED <<call, current_page, allow_manual, wq, args, browser>>

\* lines 235-246: the cookie prompt.  "clicked": the button becomes clickable
\* and is clicked; "timeout": the wait for it times out; "click_raise":
\* click() raises, which the handler of the block does not catch
NavCookies ==
    /\ pc = "nav_cookies"
    /\ \E outcome \in {"clicked", "timeout", "click_raise"}, jit \in {0, 1} :
         /\ outcome \in {"clicked", "click_raise"}
            => site.loc = "application" /\ site.banner = "shown"
         /\ site' = IF outcome = "clicked" THEN [site EXCEPT !.banner = "dismissed"]
                    ELSE site
         /\ UNCHANGED <<page, focus>>
         /\ IF outcome = "clicked"
            THEN Step("navigate_to_first_page", FALSE,
                      << Ev("cookie_button", "clicked", 0),
                         _random_sleep(CookieSleep, SleepVariance, jit) >>,
                      "True", "wq_entry")
            ELSE IF outcome = "timeout"
            THEN Step("navigate_to_first_page", FALSE,
                      <<Ev("cookie_button", "timeout", 0)>>, "True", "wq_entry")
            ELSE Step("navigate_to_first_page", FALSE,
                      <<Ev("cookie_button", "click_raise", 0)>>, "raise", "finally")
    /\ UNCHANGED <<call, current_page, allow_manual, wq, args, browser>>

(***************************************************************************)
(* wait_for_queue                                                          *)
(***************************************************************************)
InQueue == site.loc = "queue"

\* the elapsed seconds compared with the budget in minutes
WithinBudget_Minutes(w) == w.elapsed < w.budget \div SecondsPerMinute

\* the loop condition with <= for <
WithinBudget_Inclusive(w) == w.elapsed <= w.budget

\* the loop condition: time.time() - queue_start_time < max_wait_seconds
WithinBudget(w) == w.elapsed < w.budget

\* lines 341-353 and 378-380: the check at entry
WaitQueue_Entry ==
    /\ pc = "wq_entry"
    /\ \E max_wait_minutes \in 0..MaxWaitMinutes :
         /\ wq' = [NoWait EXCEPT !.budget = max_wait_minutes * SecondsPerMinute]
         /\ UNCHANGED <<page, focus, site>>
         /\ IF InQueue
            THEN Step("wait_for_queue", TRUE, <<Ev("current_url", "queue", 0)>>,
                      "", "wq_loop")
            ELSE Step("wait_for_queue", TRUE, <<Ev("current_url", "outside", 0)>>,
                      "True", "mode")
    /\ UNCHANGED <<call, current_page, allow_manual, args, browser>>

\* lines 355, 376-377: the loop condition fails
WaitQueue_Timeout ==
    /\ pc = "wq_loop"
    /\ ~WithinBudget(wq)
    /\ UNCHANGED <<page, focus, site, wq>>
    /\ Step("wait_for_queue", TRUE, <<>>, "False", "finally")
    /\ UNCHANGED <<call, current_page, allow_manual, args, browser>>

\* lines 355-360: an iteration finds the location outside the queue domain
WaitQueue_Left ==
    /\ pc = "wq_loop"
    /\ WithinBudget(wq)
    /\ ~InQueue
    /\ \E jit \in {0, 1} :
         /\ wq' = [wq EXCEPT !.start = wq.elapsed,
                             !.cycle = 0,
                             !.elapsed = @ + QueueDoneSleep + jit * SleepVariance]
         /\ UNCHANGED <<page, focus, site>>
         /\ Step("wait_for_queue", TRUE,
                 << Ev("current_url", "outside", 0),
                    _random_sleep(QueueDoneSleep, SleepVariance, jit) >>,
                 "True", "mode")
    /\ UNCHANGED <<call, current_page, allow_manual, args, browser>>

\* a cycle that fails ends the wait with False
WaitQueue_Poll_FailEnds ==
    /\ pc = "wq_loop"
    /\ WithinBudget(wq)
    /\ InQueue
    /\ \E e \in CycleAnswersOn(page, allow_manual), jit \in {0, 1} :
         LET r == check_and_handle_captcha(page, e, allow_manual)
             nap == _random_sleep(PollSleep, PollVariance, jit)
         IN  /\ page' = r.page
             /\ focus' = FocusAfter(focus, r.trace)
             /\ UNCHANGED site
             /\ IF r.ret # "True"
                THEN /\ wq' = [wq EXCEPT !.start = wq.elapsed]
                     /\ Step("wait_for_queue", TRUE,
                             <<Ev("current_url", "queue", 0), CycleEv(r)>>,
                             r.ret, "finally")
                ELSE /\ wq' = [wq EXCEPT !.start = wq.elapsed,
                                         !.cycle = Elapsed(r.trace),
                                         !.elapsed = @ + Elapsed(r.trace) + nap.dur,
                                         !.polls = @ + 1]
                     /\ Step("wait_for_queue", TRUE,
                             <<Ev("current_url", "queue", 0), CycleEv(r), nap>>,
                             "", "wq_loop")
    /\ UNCHANGED <<call, current_page, allow_manual, args, browser>>

\* lines 355-374: an iteration inside the queue domain: the detect+solve
\* cycle, whose result is not used, and the polling sleep
WaitQueue_Poll ==
    /\ pc = "wq_loop"
    /\ WithinBudget(wq)
    /\ InQueue
    /\ \E e \in CycleAnswersOn(page, allow_manual), jit \in {0, 1} :
         LET r == check_and_handle_captcha(page, e, allow_manual)
             nap == _random_sleep(PollSleep, PollVariance, jit)
         IN  /\ page' = r.page
             /\ focus' = FocusAfter(focus, r.trace)
             /\ UNCHANGED site
             /\ IF r.ret = "raise"
                THEN /\ wq' = [wq EXCEPT !.start = wq.elapsed]
                     /\ Step("wait_for_queue", TRUE,
                             <<Ev("current_url", "queue", 0), CycleEv(r)>>,
                             "raise", "finally")
                ELSE /\ wq' = [wq EXCEPT !.start = wq.elapsed,
                                         !.cycle = Elapsed(r.trace),
                                         !.elapsed = @ + Elapsed(r.trace) + nap.dur,
                                         !.polls = @ + 1]
                     /\ Step("wait_for_queue", TRUE,
                             <<Ev("current_url", "queue", 0), CycleEv(r), nap>>,
                             "", "wq_loop")
    /\ UNCHANGED <<call, current_page, allow_manual, args, browser>>

\* the queue lets the visitor in: the browser is redirected to the
\* application page
QueueAdmits ==
    /\ pc \notin {"start", "exit"}
    /\ InQueue
    /\ \E b \in {"none", "shown"}, p \in NavPages :
         /\ site' = [loc |-> "application", banner |-> b]
         /\ page' = p
         /\ focus' = "top"
         /\ hist' = [hist EXCEPT !.markers = @ \/ ShowsMarker(p)]
    /\ UNCHANGED <<call, pc, current_page, allow_manual, nav, wq, args, browser>>

\* the holding page reloads itself while the visitor waits: the queue host
\* serves a new document
QueueReloads ==
    /\ pc = "wq_loop"
    /\ InQueue
    /\ \E p \in QueuePages \ {page} :
         /\ page' = p
         /\ focus' = "top"
         /\ hist' = [hist EXCEPT !.markers = @ \/ ShowsMarker(p)]
    /\ UNCHANGED <<call, pc, site, current_page, allow_manual, nav, wq, args,
                   browser>>

(***************************************************************************)
(* main between wait_for_queue and select_car_test (run.py lines 105-119)  *)
(***************************************************************************)
\* full mode goes on to select_car_test without looking at the credentials
MainMode_SkipsCredentialCheck ==
    /\ pc = "mode"
    /\ \E mode \in {"test", "full"}, creds \in BOOLEAN :
         /\ args' = [NoArgs EXCEPT !.mode = mode, !.creds = creds]
         /\ pc' = IF mode = "full" THEN "sel_captcha1" ELSE "finally"
    /\ nav' = NoNav
    /\ wq' = NoWait
    /\ UNCHANGED <<page, focus, call, site, current_page, allow_manual, browser,
                   hist>>

\* the result of wait_for_queue is consumed and its locals are gone
MainMode ==
    /\ pc = "mode"
    /\ \E mode \in {"test", "full"}, creds \in BOOLEAN :
         /\ args' = [NoArgs EXCEPT !.mode = mode, !.creds = creds]
         /\ pc' = IF mode = "full" /\ creds THEN "sel_captcha1" ELSE "finally"
    /\ nav' = NoNav
    /\ wq' = NoWait
    /\ UNCHANGED <<page, focus, call, site, current_page, allow_manual, browser,
                   hist>>

(***************************************************************************)
(* select_car_test: every exception is caught and gives False              *)
(***************************************************************************)
\* no handler: the exception leaves the operation
Caught_Reraise(ret) == ret

\* what the caller gets when the body's try block ends with ret: a wait that
\* times out and a driver operation that fails both raise inside the block
Caught(ret) == IF ret = "raise" THEN "False" ELSE ret

\* lines 252-255: the cycle before the click
SelCaptcha1 ==
    /\ pc = "sel_captcha1"
    /\ \E e \in CycleAnswersOn(page, allow_manual) :
         LET r == check_and_handle_captcha(page, e, allow_manual)
         IN  /\ page' = r.page
             /\ focus' = FocusAfter(focus, r.trace)
             /\ UNCHANGED site
             /\ Step("select_car_test", TRUE, <<CycleEv(r)>>,
                     IF r.ret = "True" THEN "" ELSE Caught(r.ret), "sel_click")
    /\ UNCHANGED <<call, current_page, allow_manual, wq, args, browser>>

\* the wait for the control is tried again when it times out
SelClick_Retry ==
    /\ pc = "sel_click"
    /\ \/ /\ site.loc = "application"
          /\ \E loc \in {"application", "licence"}, p \in NavPages, jit \in {0, 1} :
               /\ site' = [site EXCEPT !.loc = loc]
               /\ page' = p
               /\ focus' = "top"
               /\ Step("select_car_test", FALSE,
                       << Ev("test-type-car", "clicked", 0),
                          _random_sleep(SelectSleep, SleepVariance, jit) >>,
                       "", "sel_captcha2")
       \/ /\ UNCHANGED <<page, focus, site>>
          /\ Step("select_car_test", FALSE,
                  <<Ev("test-type-car", "timeout", 0)>>, "", "sel_click")
    /\ UNCHANGED <<call, current_page, allow_manual, wq, args, browser>>

\* lines 257-263: the click on the test-type control
SelClick ==
    /\ pc = "sel_click"
    /\ \/ /\ site.loc = "application"
          /\ \E loc \in {"application", "licence"}, p \in NavPages, jit \in {0, 1} :
               /\ site' = [site EXCEPT !.loc = loc]
               /\ page' = p
               /\ focus' = "top"
               /\ Step("select_car_test", FALSE,
                       << Ev("test-type-car", "clicked", 0),
                          _random_sleep(SelectSleep, SleepVariance, jit) >>,
                       "", "sel_captcha2")
       \/ /\ \E outcome \in {"timeout", "click_raise"} :
               /\ outcome = "click_raise" => site.loc = "application"
               /\ UNCHANGED <<page, focus, site>>
               /\ Step("select_car_test", FALSE,
                       <<Ev("test-type-car", outcome, 0)>>, Caught("raise"),
                       "finally")
    /\ UNCHANGED <<call, current_page, allow_manual, wq, args, browser>>

\* lines 265-268: the cycle after the click
SelCaptcha2 ==
    /\ pc = "sel_captcha2"
    /\ \E e \in CycleAnswersOn(page, allow_manual) :
         LET r == check_and_handle_captcha(page, e, allow_manual)
         IN  /\ page' = r.page
             /\ focus' = FocusAfter(focus, r.trace)
             /\ UNCHANGED site
             /\ Step("select_car_test", FALSE, <<CycleEv(r)>>,
                     IF r.ret = "True" THEN "" ELSE Caught(r.ret), "sel_marker")
    /\ UNCHANGED <<call, current_page, allow_manual, wq, args, browser>>

\* lines 270-273: the licence-number element of the next page
SelMarker ==
    /\ pc = "sel_marker"
    /\ \E outcome \in {"found", "timeout"} :
         /\ outcome = "found" => site.loc = "licence"
         /\ outcome = "timeout" => site.loc # "licence" \/ ShowsMarker(page)
         /\ UNCHANGED <<page, focus, site>>
         /\ Step("select_car_test", FALSE,
                 <<Ev("driving-licence-number", outcome, 0)>>,
                 IF outcome = "found" THEN "True" ELSE Caught("raise"),
                 "cred_captcha1")
    /\ UNCHANGED <<call, current_page, allow_manual, wq, args, browser>>

(***************************************************************************)
(* enter_credentials: every exception is caught and gives False             *)
(***************************************************************************)
\* lines 283-285: the cycle before typing
CredCaptcha1 ==
    /\ pc = "cred_captcha1"
    /\ \E e \in CycleAnswersOn(page, allow_manual) :
         LET r == check_and_handle_captcha(page, e, allow_manual)
         IN  /\ page' = r.page
             /\ focus' = FocusAfter(focus, r.trace)
             /\ UNCHANGED site
             /\ Step("enter_credentials", TRUE, <<CycleEv(r)>>,
                     IF r.ret = "True" THEN "" ELSE Caught(r.ret), "cred_type")
    /\ UNCHANGED <<call, current_page, allow_manual, wq, args, browser>>

\* the last character of the text is not sent
Typed_DropsLast(field, n) == [i \in 1..(n - 1) |-> Ev("send_keys", field, 0)]

\* for char in text: field.send_keys(char); self._random_sleep(...)
Typed(field, n) == [i \in 1..n |-> Ev("send_keys", field, 0)]

\* lines 287-303: both fields.  "typed": both inputs become clickable;
\* "no_licence": the wait for the first times out; "no_reference": the first
\* is filled and the wait for the second times out
CredType ==
    /\ pc = "cred_type"
    /\ \E outcome \in {"typed", "no_licence", "no_reference"},
          lic \in 1..MaxChars, ref \in 1..MaxChars :
         /\ outcome = "typed" => site.loc = "licence"
         /\ outcome = "no_licence" => lic = 1 /\ ref = 1
         /\ outcome = "no_reference" => ref = 1
         /\ args' = [args EXCEPT !.lic = lic, !.ref = ref]
         /\ UNCHANGED <<page, focus, site>>
         /\ IF outcome = "typed"
            THEN Step("enter_credentials", FALSE,
                      <<Ev("clear", "driving-licence-number", 0)>>
                          \o Typed("driving-licence-number", lic)
                          \o <<Ev("clear", "application-reference-number", 0)>>
                          \o Typed("application-reference-number", ref),
                      "", "cred_submit")
            ELSE IF outcome = "no_licence"
            THEN Step("enter_credentials", FALSE,
                      <<Ev("wait", "timeout", 0)>>, Caught("raise"), "finally")
            ELSE Step("enter_credentials", FALSE,
                      <<Ev("clear", "driving-licence-number", 0)>>
                          \o Typed("driving-licence-number", lic)
                          \o <<Ev("wait", "timeout", 0)>>,
                      Caught("raise"), "finally")
    /\ UNCHANGED <<call, current_page, allow_manual, wq, browser>>

\* lines 305-314: the submit button
CredSubmit ==
    /\ pc = "cred_submit"
    /\ \/ \E loc \in {"licence", "account"}, p \in NavPages, jit \in {0, 1} :
            /\ site' = [site EXCEPT !.loc = loc]
            /\ page' = p
            /\ focus' = "top"
            /\ Step("enter_credentials", FALSE,
                    << Ev("booking-login", "clicked", 0),
                       _random_sleep(SubmitSleep, SleepVariance, jit) >>,
                    "", "cred_captcha2")
       \/ /\ UNCHANGED <<page, focus, site>>
          /\ Step("enter_credentials", FALSE,
                  <<Ev("booking-login", "timeout", 0)>>, Caught("raise"),
                  "finally")
    /\ UNCHANGED <<call, current_page, allow_manual, wq, args, browser>>

\* lines 319-321: the cycle after the submission
CredCaptcha2 ==
    /\ pc = "cred_captcha2"
    /\ \E e \in CycleAnswersOn(page, allow_manual) :
         LET r == check_and_handle_captcha(page, e, allow_manual)
         IN  /\ page' = r.page
             /\ focus' = FocusAfter(focus, r.trace)
             /\ UNCHANGED site
             /\ Step("enter_credentials", FALSE, <<CycleEv(r)>>,
                     IF r.ret = "True" THEN "" ELSE Caught(r.ret), "cred_error")
    /\ UNCHANGED <<call, current_page, allow_manual, wq, args, browser>>

\* an error element that exists fails the login, displayed or not
LoginResult_AnyElement(error_message) ==
    IF error_message # "absent" THEN "False" ELSE "True"

\* lines 323-334: error_message and error_message.is_displayed()
LoginResult(error_message) == IF error_message = "displayed" THEN "False" ELSE "True"

CredError ==
    /\ pc = "cred_error"
    /\ \E error_message \in {"absent", "hidden", "displayed"} :
         /\ error_message # "absent" => site.loc = "licence"
         /\ UNCHANGED <<page, focus, site>>
         /\ Step("enter_credentials", FALSE,
                 <<Ev("error-message", error_message, 0)>>,
                 LoginResult(error_message), "finally")
    /\ UNCHANGED <<call, current_page, allow_manual, wq, args, browser>>

(***************************************************************************)
(* main's finally block (run.py lines 138-144) and DVSABot.cleanup         *)
(***************************************************************************)
\* what the user can type at the prompt; "eof": standard input is closed and
\* input() raises EOFError
Answers == {"y", "Y", "n", "", "eof"}

\* str.lower() on the answers
lower(answer) == IF answer = "Y" THEN "y" ELSE answer

\* hist.answer keeps what was typed
MainFinally ==
    /\ pc = "finally"
    /\ \E answer \in Answers :
         /\ browser' = IF answer # "eof" /\ lower(answer) = "y" THEN "quit" ELSE "open"
         /\ hist' = [hist EXCEPT !.answer = answer]
    /\ pc' = "exit"
    /\ UNCHANGED <<page, focus, call, site, current_page, allow_manual, nav, wq,
                   args>>

Next ==
    \/ NavGet \/ NavCaptcha \/ NavForbidden \/ NavCookies
    \/ WaitQueue_Entry \/ WaitQueue_Timeout \/ WaitQueue_Left \/ WaitQueue_Poll
    \/ QueueAdmits \/ QueueReloads
    \/ MainMode
    \/ SelCaptcha1 \/ SelClick \/ SelCaptcha2 \/ SelMarker
    \/ CredCaptcha1 \/ CredType \/ CredSubmit \/ CredCaptcha2 \/ CredError
    \/ MainFinally

Spec == MainInit /\ [][Next]_vars

\* a step of main before its finally block: each changes pc or, in the polling
\* loop, the time waited; the moves of the queue host change neither
ProgramStep == pc' # pc \/ wq' # wq

\* main is one thread and every driver call, wait and sleep before the prompt
\* is bounded by a timeout, so the thread takes its next step as long as it
\* has one, which is as long as it has not reached the finally block: weak
\* fairness of the steps before the prompt, with their enabling condition
\* written out. The prompt itself blocks until the user answers.
Fairness == []<>(pc \in {"finally", "exit"}) \/ []<><<ProgramStep>>_vars

SpecLive == Spec /\ Fairness

(***************************************************************************)
(* CaptchaHandler called on any page: the operations of the class, one     *)
(* call at a time.                                                         *)
(***************************************************************************)
CaptchaTypes == {"forbidden", "imperva", "recaptcha", "incapsula"}

NoCall == [op |-> "none", arg |-> "", ret |-> "", trace |-> <<>>,
           before |-> CleanPage]

\* no run of main
Idle ==
    /\ pc = "exit"
    /\ site = [loc |-> "blank", banner |-> "none"]
    /\ current_page = "None"
    /\ nav = NoNav
    /\ wq = NoWait
    /\ args = NoArgs
    /\ browser = "open"
    /\ hist = [ops |-> <<>>, markers |-> FALSE, queued |-> FALSE, answer |-> ""]

Returned(op, arg, r, p) ==
    [op |-> op, arg |-> arg, ret |-> r.ret, trace |-> r.trace, before |-> p]

\* CaptchaHandler.__init__: the driver of a new browser, no call made
HandlerInit ==
    /\ page = CleanPage
    /\ focus = "top"
    /\ call = NoCall
    /\ allow_manual \in BOOLEAN
    /\ Idle

\* the site serves a document (driver.get by the owner of the driver)
PageLoad ==
    /\ call.op = "none"
    /\ page' \in Pages
    /\ focus' = "top"
    /\ UNCHANGED call
    /\ UNCHANGED mvars

CallDetect ==
    /\ call.op = "none"
    /\ \E fault \in BOOLEAN :
         LET r == detect_captcha(page, fault)
         IN  /\ call' = Returned("detect_captcha", "", r, page)
             /\ page' = r.page
             /\ focus' = FocusAfter(focus, r.trace)
    /\ UNCHANGED mvars

CallSolve ==
    /\ call.op = "none"
    /\ \E captcha_type \in CaptchaTypes \cup {"None"} :
         \E e \in SolveAnswersOn(captcha_type, page) :
           LET r == solve_captcha(captcha_type, page, e)
           IN  /\ call' = Returned("solve_captcha", captcha_type, r, page)
               /\ page' = r.page
               /\ focus' = FocusAfter(focus, r.trace)
    /\ UNCHANGED mvars

\* DVSABot.check_and_handle_captcha over the same driver
CallCycle ==
    /\ call.op = "none"
    /\ \E e \in CycleAnswersOn(page, allow_manual) :
         LET r == check_and_handle_captcha(page, e, allow_manual)
         IN  /\ call' = Returned("check_and_handle_captcha", "", r, page)
             /\ page' = r.page
             /\ focus' = FocusAfter(focus, r.trace)
    /\ UNCHANGED mvars

\* the caller takes the result
TakeResult ==
    /\ call.op # "none"
    /\ call' = NoCall
    /\ UNCHANGED <<page, focus>>
    /\ UNCHANGED mvars

HandlerNext == PageLoad \/ CallDetect \/ CallSolve \/ CallCycle \/ TakeResult

SpecHandler == HandlerInit /\ [][HandlerNext]_vars

(***************************************************************************)
(* Claims about CaptchaHandler (SpecHandler).                              *)
(***************************************************************************)
\* the events of solver `name` inside the trace t: from its first statement
\* to the end of t (the solver's return is the return of the call)
SolverRun(t, name) ==
    IF \E i \in DOMAIN t : t[i] = Enter(name)
    THEN SubSeq(t, CHOOSE i \in DOMAIN t : t[i] = Enter(name), Len(t))
    ELSE <<>>

Ran(name) == call.op = "solve_captcha" /\ SolverRun(call.trace, name) # <<>>

\* the first event of t after position i whose operation is op
NextOf(t, i, op) ==
    CHOOSE j \in DOMAIN t : j > i /\ t[j].op = op
                            /\ \A k \in (i + 1)..(j - 1) : t[k].op # op

MarkerOf(captcha_type, p) ==
    IF captcha_type = "forbidden" THEN p.title403 \/ p.textForbidden
    ELSE IF captcha_type = "imperva" THEN p.imperva
    ELSE IF captcha_type = "recaptcha" THEN p.recaptcha
    ELSE p.incapId \/ p.incapOther

DetectOrder == <<"forbidden", "imperva", "recaptcha", "incapsula">>

NoMarker(p) == \A i \in DOMAIN DetectOrder : ~MarkerOf(DetectOrder[i], p)

\* operations that only read the page
ReadOps == {"read_forbidden", "check_imperva", "check_recaptcha", "check_incapsula"}

\* C1: whenever the reCAPTCHA solver has returned, True or False, the focus of
\* the driver is on the top-level document, and every switch into an iframe
\* it made is followed by a switch back to the default content.
C1_RecaptchaFocusRestored ==
    Ran("_solve_google_recaptcha") =>
        /\ call.ret \in {"True", "False"}
        /\ focus = "top"
        /\ \A i \in DOMAIN call.trace :
             (call.trace[i].op = "switch_to.frame" /\ call.trace[i].res # "raise")
             => \E j \in DOMAIN call.trace :
                  j > i /\ call.trace[j].op = "switch_to.default_content"

\* the solver returned False after the click inside the anchor iframe raised
C1_Witness ==
    /\ Ran("_solve_google_recaptcha")
    /\ call.ret = "False"
    /\ \E i \in DOMAIN call.trace : call.trace[i] = Ev("switch_to.frame", "anchor", 0)
    /\ \E i \in DOMAIN call.trace : call.trace[i] = Ev("click", "raise", 0)
    /\ focus = "top"

\* solve_captcha(type) was called on a page that showed the marker of the type
SolvedShown ==
    /\ call.op = "solve_captcha"
    /\ call.arg \in CaptchaTypes
    /\ MarkerOf(call.arg, call.before)

\* C2: solve_captcha of a challenge type returns False when the manual wait
\* has elapsed and the marker is still present, and never raises, also when a
\* driver operation fails.
C2_SolveNeverRaises ==
    SolvedShown =>
        /\ call.ret \in {"True", "False"}
        /\ (/\ Has(call.trace, "_wait_for_manual_solve")
            /\ call.trace[Len(call.trace)].res = "present") => call.ret = "False"

\* C3: detect_captcha returns the first type of the order Forbidden, Imperva,
\* reCAPTCHA, Incapsula whose marker the page shows, None when it shows none.
C3_DetectFirstMatch ==
    (call.op = "detect_captcha" /\ call.ret # "raise") =>
        /\ NoMarker(call.before) <=> call.ret = "None"
        /\ \A i \in DOMAIN DetectOrder :
             (/\ MarkerOf(DetectOrder[i], call.before)
              /\ \A j \in 1..(i - 1) : ~MarkerOf(DetectOrder[j], call.before))
             => call.ret = DetectOrder[i]

\* a page with a Forbidden signal and an Imperva marker was classified
C3_Witness ==
    /\ call.op = "detect_captcha"
    /\ ForbiddenSignal(call.before) /\ call.before.imperva
    /\ call.ret = "forbidden"

ImpervaClickCleared(t) ==
    \E i \in DOMAIN t :
        /\ t[i] = Ev("js_click", "ok", 0)
        /\ \E j \in DOMAIN t : j > i /\ t[j].op = "check_imperva"
        /\ t[NextOf(t, i, "check_imperva")].res = "absent"

\* C5: when the checkbox click removes the Imperva marker, the Imperva solver
\* dispatches exactly one click, re-checks exactly once and returns True; it
\* tries no Buster button and makes no manual wait.
C5_ImpervaOneClick ==
    (Ran("_solve_imperva_captcha")
     /\ ImpervaClickCleared(SolverRun(call.trace, "_solve_imperva_captcha"))) =>
        LET run == SolverRun(call.trace, "_solve_imperva_captcha")
        IN  /\ call.ret = "True"
            /\ Count(run, "js_click") = 1
            /\ Count(run, "check_imperva") = 1
            /\ ~Has(run, "buster")
            /\ ~Has(run, "_wait_for_manual_solve")

C5_Witness ==
    /\ Ran("_solve_imperva_captcha")
    /\ call.before.imperva
    /\ ImpervaClickCleared(SolverRun(call.trace, "_solve_imperva_captcha"))
    /\ call.ret = "True" /\ ~page.imperva

\* the Incapsula solver refreshed and the re-check after the refresh found the
\* marker gone
IncapsulaRefreshCleared(t) ==
    \E i \in DOMAIN t :
        /\ t[i] = Ev("refresh", "ok", 0)
        /\ \E j \in DOMAIN t : j > i /\ t[j].op = "read_incident_id"
        /\ t[NextOf(t, i, "read_incident_id")].res = "absent"

\* C6: when the Incapsula marker is gone after the solver's refresh, the
\* solver returns True after exactly one refresh, with no click and no manual
\* wait.
C6_IncapsulaRefreshOnly ==
    (Ran("_solve_incapsula_captcha")
     /\ IncapsulaRefreshCleared(SolverRun(call.trace, "_solve_incapsula_captcha"))) =>
        LET run == SolverRun(call.trace, "_solve_incapsula_captcha")
        IN  /\ call.ret = "True"
            /\ Count(run, "refresh") = 1
            /\ ~Has(run, "click") /\ ~Has(run, "is_displayed")
            /\ ~Has(run, "_wait_for_manual_solve")

C6_Witness ==
    /\ Ran("_solve_incapsula_captcha")
    /\ call.before.incapId
    /\ IncapsulaRefreshCleared(SolverRun(call.trace, "_solve_incapsula_captcha"))
    /\ call.ret = "True" /\ ~page.incapId

\* wait_for_queue, called with max_wait_minutes = 1, has returned and the
\* location was in the queue domain all along
WaitedOneMinute ==
    /\ nav.op = "wait_for_queue" /\ nav.ret # ""
    /\ wq.budget = SecondsPerMinute
    /\ nav.at = "queue"

C8_QueueExits ==
    (nav.op = "wait_for_queue" /\ nav.ret \in {"True", "False"}) =>
        /\ nav.ret = "True" =>
              /\ nav.at # "queue"
              /\ nav.trace[1] = Ev("current_url", "outside", 0)
              /\ \/ Len(nav.trace) = 1 /\ wq.polls = 0 /\ wq.elapsed = 0
                 \/ /\ wq.start < wq.budget
                    /\ ~Has(nav.trace, "check_and_handle_captcha")
                    /\ wq.elapsed <= wq.start + QueueDoneSleep + SleepVariance
        /\ nav.ret = "False" =>
              /\ wq.elapsed >= wq.budget
              /\ Len(nav.trace) = 0

\* True was returned from an iteration that followed completed ones
C8_Witness ==
    /\ nav.op = "wait_for_queue" /\ nav.ret = "True"
    /\ wq.polls > 0
    /\ wq.start < wq.budget

\* the run began at the queue URL, no page of it showed a challenge marker,
\* the application page showed a cookie banner, and select_car_test returned
\* True
ScenarioDone ==
    /\ nav.op = "select_car_test" /\ nav.ret = "True"
    /\ hist.queued /\ ~hist.markers
    /\ site.banner # "none"

\* C9: in the scenario queue URL, application page with cookie banner,
\* test-type page, with no challenge marker, the tracked state has moved on
\* from the application page and the cookie banner has been dismissed.
C9_ScenarioTracked ==
    ScenarioDone =>
        /\ current_page \notin {"None", "application"}
        /\ site.banner = "dismissed"

\* C10: whenever solve_captcha returns False, a manual wait has elapsed during
\* the call and a re-check made after it found the marker still present.
C10_FalseOnlyAfterManualRecheck ==
    (SolvedShown /\ call.ret = "False") =>
        \E i \in DOMAIN call.trace :
            /\ call.trace[i].op = "_wait_for_manual_solve"
            /\ \E j \in DOMAIN call.trace :
                 j > i /\ call.trace[j].res = "present"

(***************************************************************************)
(* Claims about the order of the steps inside solve_captcha (SpecHandler). *)
(***************************************************************************)
\* an automated step that was dispatched: a click, a refresh, a Buster click
Automated(ev) ==
    \/ ev.op \in {"js_click", "click", "refresh"} /\ ev.res = "ok"
    \/ ev.op = "buster" /\ ev.res = "clicked"

\* a look at the marker of a challenge
ReCheckOps == ReadOps \cup {"read_incident_id"}

\* the manual wait at position i of t starts after a re-check that followed
\* the automated steps and found the marker present
WaitAfterReCheck(t, i) ==
    \A k \in 1..(i - 1) :
        Automated(t[k]) =>
            \E j \in (k + 1)..(i - 1) :
                /\ t[j].op \in ReCheckOps /\ t[j].res = "present"
                /\ \A n \in (j + 1)..(i - 1) : ~Automated(t[n])

\* C11: in one solve_captcha call the manual wait starts only after the
\* re-check that followed the automated steps found the marker present, no
\* automated step follows the start of the manual wait, and the manual wait
\* is invoked at most once.
C11_EscalateAfterReCheck ==
    call.op = "solve_captcha" =>
        /\ Count(call.trace, "_wait_for_manual_solve") <= 1
        /\ \A i \in DOMAIN call.trace :
             call.trace[i].op = "_wait_for_manual_solve" =>
                /\ WaitAfterReCheck(call.trace, i)
                /\ \A j \in DOMAIN call.trace : j > i => ~Automated(call.trace[j])

(***************************************************************************)
(* Claims about the Navigator operations (Spec).                           *)
(***************************************************************************)
\* C12: current_page changes only when a Navigator operation returns True:
\* navigate_to_first_page returning False leaves it as __init__ set it, and
\* an operation that returns True on a later page has moved it on from the
\* application page.
C12_TrackedOnlyOnSuccess ==
    /\ (nav.op = "navigate_to_first_page" /\ nav.ret = "False")
       => current_page = "None"
    /\ (nav.op \in {"select_car_test", "enter_credentials"} /\ nav.ret = "True")
       => current_page # "application"

\* a driver operation of the call raised (the driver is gone)
DriverFault(t) == \E i \in DOMAIN t : t[i].res = "raise"

\* C13: a driver fault during a Navigator operation reaches the caller as an
\* exception, never as the result False.
C13_FaultsSurface ==
    (nav.ret # "" /\ DriverFault(nav.trace)) => nav.ret = "raise"

\* C14: every sleep of a CaptchaHandler call is a base delay plus a random
\* jitter (a _random_sleep), none has a fixed duration.
C14_EverySleepJittered ==
    \A i \in DOMAIN call.trace :
        call.trace[i].dur > 0 => call.trace[i].op = "_random_sleep"

\* the positions of the events of operation op in t
At(t, op) == {i \in DOMAIN t : t[i].op = op}

\* the last position of a non-empty set of positions
Last(S) == CHOOSE i \in S : \A j \in S : j <= i

\* C15: navigate_to_first_page returns True only if its last look at the
\* Forbidden signal found it absent; it looks for the cookie button only after
\* a cycle that succeeded and a look that found no Forbidden signal; a failed
\* cycle or a Forbidden signal still present gives False; the Forbidden signal
\* is looked at whenever the cycle succeeded.
C15_ForbiddenGate ==
    nav.op = "navigate_to_first_page" =>
        LET t == nav.trace
            cyc == At(t, "check_and_handle_captcha")
            chk == At(t, "read_forbidden")
        IN  /\ nav.ret = "True" => chk # {} /\ t[Last(chk)].res = "absent"
            /\ \A k \in At(t, "cookie_button") :
                 /\ \E i \in cyc : i < k /\ t[i].res = "True"
                 /\ \E j \in chk : j < k
                 /\ t[Last({j \in chk : j < k})].res = "absent"
            /\ \A i \in cyc : t[i].res = "False" => nav.ret = "False" /\ chk = {}
            /\ (chk # {} /\ t[Last(chk)].res = "present" /\ nav.ret # "raise")
               => nav.ret = "False"
            /\ \A i \in cyc : (t[i].res = "True" /\ nav.ret # "") => chk # {}

\* the operation returned True after handle_403_error had run and the look
\* after it found the Forbidden signal gone
C15_Witness ==
    /\ nav.op = "navigate_to_first_page" /\ nav.ret = "True"
    /\ Has(nav.trace, "handle_403_error")
    /\ nav.trace[Last(At(nav.trace, "read_forbidden"))].res = "absent"

\* C16: once navigate_to_first_page has reached the cookie prompt, a button
\* that does not become clickable is no failure: the operation returns True,
\* having clicked the button (once, the banner is dismissed) or not (the
\* banner is as it was); it never returns False from there.
C16_CookieOptional ==
    (nav.op = "navigate_to_first_page" /\ nav.ret # "") =>
        LET t == nav.trace
            ck == At(t, "cookie_button")
        IN  /\ nav.ret = "True" => ck # {}
            /\ Cardinality(ck) <= 1
            /\ \A k \in ck :
                 /\ t[k].res = "timeout"
                    => nav.ret = "True" /\ site.banner # "dismissed"
                 /\ t[k].res = "clicked"
                    => /\ nav.ret = "True"
                       /\ site.loc = "application" /\ site.banner = "dismissed"
                 /\ nav.ret # "False"

\* the operation returned True on the application page with no cookie banner
C16_Witness ==
    /\ nav.op = "navigate_to_first_page" /\ nav.ret = "True"
    /\ site.loc = "application" /\ site.banner = "none"
    /\ nav.trace[Len(nav.trace)] = Ev("cookie_button", "timeout", 0)

\* the operations of the events of t, in order
Ops(t) == [i \in DOMAIN t |-> t[i].op]

\* C17: select_car_test returns True only after a cycle that succeeded, the
\* click on the test-type control, a second cycle that succeeded and the
\* licence-number element found, in this order; the control is clicked only
\* after a first cycle that succeeded; the call never raises.
C17_SelectOrder ==
    nav.op = "select_car_test" =>
        LET t == nav.trace
        IN  /\ nav.ret # "raise"
            /\ nav.ret = "True" =>
                 /\ Ops(t) = << "check_and_handle_captcha", "test-type-car",
                                "_random_sleep", "check_and_handle_captcha",
                                "driving-licence-number" >>
                 /\ t[1].res = "True" /\ t[2].res = "clicked"
                 /\ t[4].res = "True" /\ t[5].res = "found"
            /\ \A k \in At(t, "test-type-car") :
                 k = 2 /\ t[1].op = "check_and_handle_captcha" /\ t[1].res = "True"
            /\ (\E i \in DOMAIN t : t[i].res = "timeout")
               => nav.ret = "False"

\* the wait for the licence-number element timed out after the click, and the
\* call returned False
C17_Witness ==
    /\ nav.op = "select_car_test" /\ nav.ret = "False"
    /\ Has(nav.trace, "test-type-car")
    /\ nav.trace[Len(nav.trace)] = Ev("driving-licence-number", "timeout", 0)

\* C18: once the credentials are submitted and the cycle after the submission
\* has succeeded, enter_credentials returns False when the error element
\* exists and is displayed, and True when it is absent or not displayed.
C18_InlineError ==
    nav.op = "enter_credentials" =>
        LET t == nav.trace
        IN  \A k \in At(t, "error-message") :
                /\ k = Len(t)
                /\ \E i \in At(t, "booking-login") :
                     /\ t[i].res = "clicked"
                     /\ \E j \in At(t, "check_and_handle_captcha") :
                          i < j /\ j < k /\ t[j].res = "True"
                /\ t[k].res = "displayed" => nav.ret = "False"
                /\ t[k].res \in {"absent", "hidden"} => nav.ret = "True"

\* an error element that is not displayed, and the call returned True
C18_Witness ==
    /\ nav.op = "enter_credentials" /\ nav.ret = "True"
    /\ nav.trace[Len(nav.trace)] = Ev("error-message", "hidden", 0)

\* C19: within one call the start URL is loaded at most once, the test-type
\* control is waited for and clicked at most once and the submit button at
\* most once; an operation that returned False is not run again, and main
\* calls no operation twice.
C19_NoRetry ==
    /\ Count(nav.trace, "driver.get") <= 1
    /\ Count(nav.trace, "test-type-car") <= 1
    /\ Count(nav.trace, "booking-login") <= 1
    /\ nav.ret = "False" => pc \in {"finally", "exit"}
    /\ \A i, j \in DOMAIN hist.ops :
         i # j => hist.ops[i][1] # hist.ops[j][1]

\* the wait for the test-type control timed out, select_car_test returned
\* False and the run went to its end
C19_Witness ==
    /\ nav.op = "select_car_test" /\ nav.ret = "False"
    /\ nav.trace[Len(nav.trace)] = Ev("test-type-car", "timeout", 0)
    /\ pc = "exit"

\* an event that is a step of a solver's path: not a fixed pause, not the
\* switch back to the top-level document
PathStep(ev) == ev.op \notin {"time.sleep", "switch_to.default_content"}

\* the steps of the path after position i of t
PathAfter(t, i) == SelectSeq(SubSeq(t, i + 1, Len(t)), PathStep)

\* no solver button was found at position i of t
BusterMissing(t, i) == t[i] = Ev("buster", "none", 0)

\* re-check; if the marker is still present, manual wait and final re-check
ReCheckThenWait(s, check) ==
    \/ Len(s) = 1 /\ s[1] = Chk(check, FALSE)
    \/ /\ Len(s) = 3
       /\ s[1] = Chk(check, TRUE)
       /\ s[2].op = "_wait_for_manual_solve"
       /\ s[3].op = check

\* manual wait, then the final re-check
WaitThenReCheck(s, check) ==
    /\ Len(s) = 2
    /\ s[1].op = "_wait_for_manual_solve"
    /\ s[2].op = check

EnterAt(t, name) ==
    IF \E i \in DOMAIN t : t[i] = Enter(name)
    THEN CHOOSE i \in DOMAIN t : t[i] = Enter(name)
    ELSE 0

\* handle_403_error, entered at position h of t, saw the marker read by
\* `check` as present before it called the solver entered at position s
SawBefore(t, h, s, check) ==
    \E k \in (h + 1)..(s - 1) : t[k] = Chk(check, TRUE)

\* C21: handle_403_error calls the Imperva or the Incapsula solver only after
\* a look of this call found that solver's marker present; when neither
\* marker is found it refreshes once, reads the Forbidden signal once,
\* returns True when the signal is gone and otherwise waits for manual
\* intervention.
C21_DelegateObserved ==
    (call.op = "solve_captcha" /\ EnterAt(call.trace, "handle_403_error") > 0) =>
        LET t == call.trace
            h == EnterAt(t, "handle_403_error")
            si == EnterAt(t, "_solve_imperva_captcha")
            sn == EnterAt(t, "_solve_incapsula_captcha")
        IN  /\ si > 0 => SawBefore(t, h, si, "check_imperva")
            /\ sn > 0 => SawBefore(t, h, sn, "check_incapsula")
            /\ (si = 0 /\ sn = 0 /\ call.ret # "raise") =>
                 /\ Count(SubSeq(t, h, Len(t)), "refresh") = 1
                 /\ Count(SubSeq(t, h, Len(t)), "read_forbidden") = 1
                 /\ t[Len(t)] = Chk("read_forbidden", FALSE) <=> call.ret = "True"
                 /\ call.ret # "True" =>
                      /\ t[Len(t)].op = "_wait_for_manual_solve"
                      /\ t[Len(t) - 1] = Chk("read_forbidden", TRUE)

C23_FalseOnlyInQueue ==
    (nav.op = "wait_for_queue" /\ nav.ret = "False") => nav.at = "queue"

\* the type a solve_captcha call worked on: the type it was given, or the
\* type its own detection found
SolvedType ==
    IF call.arg = "None" THEN detect_captcha(call.before, FALSE).ret ELSE call.arg

\* C24: whenever solve_captcha returns True for a type, detect_captcha run on
\* the page as the call left it does not return that type.
C24_SolvedNotDetected ==
    (call.op = "solve_captcha" /\ call.ret = "True" /\ SolvedType # "None")
        => detect_captcha(page, FALSE).ret # SolvedType

(***************************************************************************)
(* Claims about one check_and_handle_captcha call (SpecHandler).           *)
(***************************************************************************)
CycleCall == call.op = "check_and_handle_captcha" /\ call.ret # "raise"

\* what the detection at the start of the call returned
FirstDetected == detect_captcha(call.before, FALSE).ret

\* the value solve_captcha returned to the call, "" when it was not called or
\* did not return
SolverReturned(t) ==
    IF \E i \in DOMAIN t : t[i].op = "success"
    THEN t[CHOOSE i \in DOMAIN t : t[i].op = "success"].res
    ELSE ""

\* the events of t after the value of solve_captcha was taken
AfterSolver(t) ==
    IF \E i \in DOMAIN t : t[i].op = "success"
    THEN SubSeq(t, (CHOOSE i \in DOMAIN t : t[i].op = "success") + 1, Len(t))
    ELSE <<>>

\* the configured manual wait
ConfiguredWait(ev) == ev.op = "_random_sleep" /\ ev.dur >= ManualSolveTimeout

\* s is the configured wait followed by a detect_captcha that returned None
WaitThenNone(s) ==
    /\ Len(s) > 1
    /\ ConfiguredWait(s[1])
    /\ \A i \in 2..Len(s) : s[i].op \in ReadOps /\ s[i].res = "absent"

\* C25: check_and_handle_captcha returns True exactly when detect_captcha
\* returned None, or the solver returned True, or the solver returned False,
\* allow_manual_solve is true and the detect_captcha made after the
\* configured wait returned None; when the solver returns False and
\* allow_manual_solve is false it returns False with no further wait or
\* detection.
C25_CycleResult ==
    CycleCall =>
        LET s == SolverReturned(call.trace)
            rest == AfterSolver(call.trace)
        IN  /\ call.ret \in {"True", "False"}
            /\ FirstDetected = "None" <=> s = ""
            /\ call.ret = "True" <=>
                 \/ FirstDetected = "None"
                 \/ s = "True"
                 \/ s = "False" /\ allow_manual /\ WaitThenNone(rest)
            /\ (s = "False" /\ ~allow_manual) => call.ret = "False" /\ rest = <<>>
            /\ (s = "False" /\ allow_manual) =>
                 /\ ConfiguredWait(rest[1])
                 /\ Len(rest) > 1

\* the solver returned False, manual solving is allowed, the challenge was
\* solved by hand during the configured wait and the call returned True
C25_Witness ==
    /\ CycleCall /\ call.ret = "True"
    /\ SolverReturned(call.trace) = "False"
    /\ allow_manual /\ WaitThenNone(AfterSolver(call.trace))

\* the events of t up to the value of solve_captcha
UpToSolver(t) ==
    IF \E i \in DOMAIN t : t[i].op = "success"
    THEN SubSeq(t, 1, (CHOOSE i \in DOMAIN t : t[i].op = "success") - 1)
    ELSE t

\* a wait for manual intervention: the solver's or the configured one
ManualWait(ev) == ev.op = "_wait_for_manual_solve" \/ ConfiguredWait(ev)

\* C26: one check_and_handle_captcha call makes at most two waits for manual
\* intervention: at most one inside the solver and at most one configured
\* wait after it, the latter only when the solver returned False and
\* allow_manual_solve is true; after a solver that returned True only the
\* post-success pause follows.
C26_AtMostTwoWaits ==
    call.op = "check_and_handle_captcha" =>
        LET t == call.trace
            s == SolverReturned(t)
            rest == AfterSolver(t)
        IN  /\ Cardinality({i \in DOMAIN t : ManualWait(t[i])}) <= 2
            /\ Count(UpToSolver(t), "_wait_for_manual_solve") <= 1
            /\ \A i \in DOMAIN UpToSolver(t) : ~ConfiguredWait(UpToSolver(t)[i])
            /\ Cardinality({i \in DOMAIN rest : ManualWait(rest[i])}) <= 1
            /\ (\E i \in DOMAIN rest : ManualWait(rest[i])) =>
                   s = "False" /\ allow_manual /\ ConfiguredWait(rest[1])
            /\ s = "True" =>
                   /\ Len(rest) = 1 /\ rest[1].op = "_random_sleep"
                   /\ rest[1].dur <= PostSolveSleep + SleepVariance

\* the solver waited for manual intervention and returned False, and the
\* configured wait followed: two waits in one call
C26_Witness ==
    /\ call.op = "check_and_handle_captcha"
    /\ Count(UpToSolver(call.trace), "_wait_for_manual_solve") = 1
    /\ SolverReturned(call.trace) = "False"
    /\ AfterSolver(call.trace) # <<>>
    /\ ConfiguredWait(AfterSolver(call.trace)[1])

(***************************************************************************)
(* Claims about wait_for_queue and enter_credentials (Spec).               *)
(***************************************************************************)
\* the detect+solve cycle of the last iteration returned False
CycleFailed == Has(nav.trace, "check_and_handle_captcha")
               /\ nav.trace[Last(At(nav.trace, "check_and_handle_captcha"))].res = "False"

\* C27: inside wait_for_queue a detect+solve cycle that returns False does
\* not end the wait: the iteration goes on to its polling sleep and the loop
\* to its next test. wait_for_queue returns True only when it read a location
\* outside the queue domain and False only when the budget is used up.
C27_FailedCycleKeepsPolling ==
    nav.op = "wait_for_queue" =>
        /\ CycleFailed =>
             /\ nav.ret = "" /\ pc = "wq_loop"
             /\ nav.trace[Len(nav.trace)].op = "_random_sleep"
        /\ nav.ret = "True" =>
             \E i \in DOMAIN nav.trace : nav.trace[i] = Ev("current_url", "outside", 0)
        /\ nav.ret = "False" =>
             /\ ~WithinBudget(wq)
             /\ \A i \in DOMAIN nav.trace : nav.trace[i].op # "check_and_handle_captcha"

\* a cycle in the queue failed and the iteration went on to its polling
\* sleep: the loop is at its next test
C27_Witness ==
    /\ nav.op = "wait_for_queue" /\ CycleFailed
    /\ pc = "wq_loop" /\ wq.polls >= 1 /\ nav.ret = ""

\* what enter_credentials has done when it clicks the submit button: the
\* cycle that succeeded, then every character of the licence number, then
\* every character of the booking reference
BeforeSubmit ==
    <<Ev("check_and_handle_captcha", "True", 0)>>
    \o <<Ev("clear", "driving-licence-number", 0)>>
    \o [i \in 1..args.lic |-> Ev("send_keys", "driving-licence-number", 0)]
    \o <<Ev("clear", "application-reference-number", 0)>>
    \o [i \in 1..args.ref |-> Ev("send_keys", "application-reference-number", 0)]

\* C28: in enter_credentials no character is typed unless the cycle before
\* succeeded; the submit button is clicked only after every character of the
\* licence number and then every character of the booking reference has been
\* sent; the cycle after the submission runs only after the submit click, and
\* its failure makes the call return False.
C28_TypeThenSubmit ==
    nav.op = "enter_credentials" =>
        LET t == nav.trace
            cyc == At(t, "check_and_handle_captcha")
        IN  /\ Has(t, "send_keys") => t[1] = Ev("check_and_handle_captcha", "True", 0)
            /\ \A i \in DOMAIN t :
                 t[i] = Ev("booking-login", "clicked", 0)
                     => SubSeq(t, 1, i - 1) = BeforeSubmit
            /\ Cardinality(cyc) <= 2
            /\ Cardinality(cyc) = 2 =>
                 /\ \E i \in DOMAIN t : /\ t[i] = Ev("booking-login", "clicked", 0)
                                        /\ i < Last(cyc)
                 /\ t[Last(cyc)].res # "True" =>
                      nav.ret = "False" /\ Last(cyc) = Len(t)

\* both fields were typed, character by character, the button was clicked
\* and the cycle after the submission failed: the call returned False
C28_Witness ==
    /\ nav.op = "enter_credentials" /\ nav.ret = "False"
    /\ args.lic >= 2 /\ args.ref >= 2
    /\ Cardinality(At(nav.trace, "check_and_handle_captcha")) = 2
    /\ nav.trace[Len(nav.trace)].op = "check_and_handle_captcha"

(***************************************************************************)
(* Claims about the Incapsula solver and detect_captcha (SpecHandler).     *)
(***************************************************************************)
\* the run of the Incapsula solver in the call, when the re-check after its
\* refresh found the marker present; <<>> otherwise
IncapsulaStillPresent ==
    LET r == IF call.op = "solve_captcha"
             THEN SolverRun(call.trace, "_solve_incapsula_captcha") ELSE <<>>
    IN  IF Len(r) >= 4 /\ r[4] = Chk("read_incident_id", TRUE) THEN r ELSE <<>>

\* C29: when the marker is still present after the refresh, the Incapsula
\* solver clicks only elements that are displayed, re-checks the body-text
\* marker after each click that succeeded, and returns True at the first
\* re-check that finds it absent, with no click after it; if no click clears
\* the marker it waits for manual intervention once, re-checks once and
\* returns the result of that re-check.
C29_IncapsulaClicks ==
    LET r == IncapsulaStillPresent
    IN  r # <<>> =>
          /\ \A i \in DOMAIN r :
               /\ r[i].op = "click" => r[i - 1] = Ev("is_displayed", "displayed", 0)
               /\ r[i] = Ev("click", "ok", 0) =>
                    /\ r[i + 1] = Sleep(IncapsulaClickSettle)
                    /\ r[i + 2].op = "read_incident_id"
               /\ (i > 4 /\ r[i] = Chk("read_incident_id", FALSE)) =>
                    i = Len(r) /\ call.ret = "True"
          /\ (\A i \in DOMAIN r : r[i] = Ev("click", "ok", 0) => r[i + 2].res # "absent")
               => /\ Count(r, "_wait_for_manual_solve") = 1
                  /\ r[Len(r) - 1].op = "_wait_for_manual_solve"
                  /\ r[Len(r)].op = "read_incident_id"
                  /\ call.ret = "True" <=> r[Len(r)].res = "absent"
          /\ (\E i \in DOMAIN r : r[i] = Ev("click", "ok", 0) /\ r[i + 2].res = "absent")
               => Count(r, "_wait_for_manual_solve") = 0

\* a first click left the marker, a second click cleared it and the solver
\* returned True
C29_Witness ==
    /\ IncapsulaStillPresent # <<>>
    /\ CountRes(IncapsulaStillPresent, "click", "ok") = 2
    /\ Count(IncapsulaStillPresent, "_wait_for_manual_solve") = 0
    /\ call.ret = "True"

\* C30: detect_captcha is read-only: on every path, a raised exception
\* included, its steps are reads of the title, the source, the elements and
\* the cookies (no click, no refresh, no navigation, no frame switch), and the
\* page and the focus of the driver after the call are those before it.
C30_DetectReadOnly ==
    [][ (call.op = "none" /\ call'.op = "detect_captcha") =>
            /\ page' = page
            /\ focus' = focus
            /\ call'.before = page
            /\ call'.trace # <<>>
            /\ \A i \in DOMAIN call'.trace : call'.trace[i].op \in ReadOps ]_vars

\* detect_captcha went through all its reads on a page that shows only an
\* Incapsula cookie, returned "incapsula" and left the page as it was
C30_Witness ==
    /\ call.op = "detect_captcha" /\ call.ret = "incapsula"
    /\ Len(call.trace) = 4
    /\ call.before.incapOther /\ page = call.before /\ focus = "top"

(***************************************************************************)
(* Termination of solve_captcha (SpecHandler).                             *)
(***************************************************************************)
\* the positions of t where a solver or handler starts
Entered(t) == {i \in DOMAIN t : t[i].op = "enter"}

\* the longest pause one statement of the handler asks for
LongestWait == RecaptchaChallengeTimeout

\* the pauses of the longest path without a candidate list
PathWaits == RecaptchaClickSettle + RecaptchaBusterSettle + RecaptchaChallengeTimeout

\* C31: every solve_captcha call ends, with True, False or an exception: it
\* enters at most one solver, after handle_403_error at most once and then
\* only the Imperva or the Incapsula solver; it looks at no more candidate
\* elements than the page has; each of its pauses is bounded, it waits for
\* manual intervention at most once, and its total pause is bounded by the
\* pauses of one path plus one settle time per element clicked.
C31_SolveTerminates ==
    call.op = "solve_captcha" =>
        LET t == call.trace
        IN  /\ call.ret \in {"True", "False", "raise"}
            /\ Cardinality(Entered(t)) <= 2
            /\ \A i, j \in Entered(t) : i < j =>
                 /\ t[i].res = "handle_403_error"
                 /\ t[j].res \in {"_solve_imperva_captcha", "_solve_incapsula_captcha"}
            /\ Count(t, "is_displayed") <= MaxElems
            /\ \A i \in DOMAIN t : t[i].dur <= LongestWait
            /\ Count(t, "_wait_for_manual_solve") <= 1
            /\ Elapsed(t) <= PathWaits + IncapsulaClickSettle * CountRes(t, "click", "ok")
            /\ Len(t) <= 12 + 4 * MaxElems

\* handle_403_error handed the page to the Incapsula solver, which went
\* through every candidate element, waited for manual intervention and
\* returned
C31_Witness ==
    /\ call.op = "solve_captcha" /\ call.ret \in {"True", "False"}
    /\ Cardinality(Entered(call.trace)) = 2
    /\ Count(call.trace, "is_displayed") = MaxElems
    /\ Count(call.trace, "_wait_for_manual_solve") = 1

(***************************************************************************)
(* The order of the operations in main (Spec).                             *)
(***************************************************************************)
NavigatorOrder ==
    << "navigate_to_first_page", "wait_for_queue", "select_car_test",
       "enter_credentials" >>

\* the operation that is running and has not returned
Running == nav.op # "none" /\ nav.ret = ""

\* C32: main invokes navigate_to_first_page, wait_for_queue, select_car_test
\* and enter_credentials in this order, each only if every earlier one
\* returned True; select_car_test and enter_credentials are invoked only in
\* full mode with a licence number and a booking reference that are both
\* non-empty.
C32_FixedOrder ==
    /\ Len(hist.ops) <= Len(NavigatorOrder)
    /\ \A i \in DOMAIN hist.ops :
         /\ hist.ops[i][1] = NavigatorOrder[i]
         /\ i < Len(hist.ops) => hist.ops[i][2] = "True"
         /\ i > 2 => args.mode = "full" /\ args.creds
    /\ Running =>
         /\ Len(hist.ops) < Len(NavigatorOrder)
         /\ nav.op = NavigatorOrder[Len(hist.ops) + 1]
         /\ \A i \in DOMAIN hist.ops : hist.ops[i][2] = "True"
    /\ nav.op \in {"select_car_test", "enter_credentials"} =>
         args.mode = "full" /\ args.creds
    /\ (args.mode = "test" \/ (args.mode = "full" /\ ~args.creds)) =>
         /\ Len(hist.ops) = 2
         /\ nav.op = "none"

\* the four operations ran in full mode, each after the earlier ones had
\* returned True
C32_Witness ==
    /\ Len(hist.ops) = 4
    /\ \A i \in 1..3 : hist.ops[i][2] = "True"
    /\ args.mode = "full" /\ args.creds

====
